---- MODULE Spec2Model ----
(***************************************************************************)
(* Task execution orchestrator of cloud-agent.                             *)
(*                                                                         *)
(* The model follows app/tasks/agent_execution.py (the Celery wrapper),    *)
(* app/services/agent_execution.py (execute_task and                       *)
(* setup_sandbox_environment), app/services/sandbox.py (create_sandbox,    *)
(* run_command, run_agent) and app/services/task.py (the task registry).   *)
(*                                                                         *)
(* Python values: a str is a non-empty sequence of tokens (the empty str   *)
(* is <<"">>), None is the empty sequence.  An f-string is the             *)
(* concatenation of its pieces, so "the result contains stderr" is a       *)
(* statement about the tokens of the result.                               *)
(***************************************************************************)
EXTENDS Integers, Sequences, FiniteSets, TLC

VARIABLES
    task,        \* the row of the tasks table for the one task id of the model
    stored,      \* logs/tasks/<id>/session.jsonl (Null while there is no file)
    live,        \* sandboxes held by an invocation and not yet killed
    orphans,     \* TRUE while some live sandbox has no invocation holding it
    deliveries,  \* messages the broker has handed to a worker so far
    pc,          \* per worker: position in execute_agent_task / execute_task
    msg,         \* per worker: number of the delivery being processed
    retries,     \* per worker: self.request.retries of the running attempt
    loc,         \* per worker: local variables of execute_task / run_agent
    calls,       \* per worker: what the running invocation has done so far
    wait,        \* one call of ApiClientService.wait_for_task
    page,        \* one call of TaskService.get_task_logs
    runs,        \* two executions compared with each other
    call,        \* one call of a function of the services, on its own
    script       \* one run of scripts/sandbox_agent.py

\* the state of the orchestrator
exec == <<task, stored, live, orphans, deliveries, pc, msg, retries, loc, calls>>

\* the state of the calls beside it
aside == <<wait, page, runs, call, script>>

vars == <<exec, aside>>

----------------------------------------------------------------------------
(* Bounds of the model *)

\* deliveries of the task's message by the broker (the first one and
\* at-least-once redeliveries)
MaxDeliveries == 2

----------------------------------------------------------------------------
(* Python values *)

Null == <<>>
EmptyStr == <<"">>
Str(t) == <<t>>

\* bool(s) of an optional str
Truthy(s) == s # Null /\ s # EmptyStr

\* a or b
PyOr(a, b) == IF Truthy(a) THEN a ELSE b

\* token t occurs in text s
Contains(s, t) == \E i \in 1..Len(s) : s[i] = t

Workers == {1, 2}

----------------------------------------------------------------------------
(* Program constants *)

max_retries == 3

\* Task.sandbox_id when no sandbox was recorded (None)
NoSandbox == 0

Terminal == {"completed", "failed"}

SessionIds == {"s1", "s2"}

TaskId == "t1"

----------------------------------------------------------------------------
(* Task registry: app/models/task.py, app/services/task.py *)

\* Task(prompt=..., repository_url=..., status="pending"): the row create_task
\* commits.  exists = FALSE stands for an id that has no row.
NewTask(exists) ==
    [ exists         |-> exists,
      prompt         |-> Str("prompt"),
      repository_url |-> Str("https://github.com/x/y.git"),
      parent_task_id |-> Null,
      status         |-> "pending",
      result         |-> Null,
      sandbox_id     |-> NoSandbox,
      session_id     |-> Null,
      branch_name    |-> Null ]

\* The branch_name column of the row.  execute_task reads task.branch_name and
\* passes branch_name= to update_task_status, and the API layer passes
\* branch_name= to create_task; the column itself and the keyword are in no file
\* of src/, so they follow the registry contract of the specification:
\* update_status(id, status, result?, sandbox_id?, session_id?, branch_name?).
WithBranchName(row, branch_name) ==
    IF branch_name # Null THEN [row EXCEPT !.branch_name = branch_name] ELSE row

\* mutant: every optional field is assigned, None included
UpdateTaskStatus_AssignsNone(row, status, result, sandbox_id, session_id) ==
    [row EXCEPT
        !.status     = status,
        !.result     = result,
        !.sandbox_id = sandbox_id,
        !.session_id = session_id]

\* update_task_status(task_id, status, result, sandbox_id, session_id) on an
\* existing row: status is always written, the optional fields only when the
\* argument is not None.
UpdateTaskStatus(row, status, result, sandbox_id, session_id) ==
    [row EXCEPT
        !.status     = status,
        !.result     = IF result # Null THEN result ELSE @,
        !.sandbox_id = IF sandbox_id # NoSandbox THEN sandbox_id ELSE @,
        !.session_id = IF session_id # Null THEN session_id ELSE @]

----------------------------------------------------------------------------
(* Sandbox gateway: what sandbox.commands.run does for one command *)

\* commands.run returned a result object
GwReturn(code, out, err) ==
    [kind |-> "return", exit_code |-> code, stdout |-> out, stderr |-> err]

\* commands.run raised CommandExitException (a non-zero exit)
GwExit(code, out, err) ==
    [kind |-> "CommandExitException", exit_code |-> code, stdout |-> out,
     stderr |-> err]

\* commands.run raised TimeoutException
GwTimeout ==
    [kind |-> "TimeoutException", exit_code |-> 0, stdout |-> Null,
     stderr |-> Null]

\* mutant: the exception of a non-zero exit is not caught
RunCommand_ExitRaises(gw) ==
    IF gw.kind = "return"
    THEN [raised |-> "none", exit_code |-> gw.exit_code, stdout |-> gw.stdout,
          stderr |-> gw.stderr]
    ELSE [raised |-> gw.kind, exit_code |-> 0, stdout |-> Null, stderr |-> Null]

\* SandboxService.run_command: the result is returned as it is, a
\* CommandExitException becomes a CommandResult, anything else propagates.
RunCommand(gw) ==
    IF gw.kind \in {"return", "CommandExitException"}
    THEN [raised |-> "none", exit_code |-> gw.exit_code, stdout |-> gw.stdout,
          stderr |-> gw.stderr]
    ELSE [raised |-> gw.kind, exit_code |-> 0, stdout |-> Null, stderr |-> Null]

\* What the gateway can answer to a git or shell command whose output is `out`
\* on success and whose error text is `err`.
Responses(out, err) ==
    { GwReturn(0, out, EmptyStr), GwExit(1, EmptyStr, err),
      GwExit(128, EmptyStr, err), GwTimeout }

\* the provider's id of the sandbox created by worker e's current attempt
SandboxId(e) == (msg[e] - 1) * (max_retries + 1) * 2 + retries[e] * 2 + e

----------------------------------------------------------------------------
(* State of one invocation *)

LocInit ==
    [ task_branch  |-> Null,     \* task.branch_name read at line 92
      task_session |-> Null,     \* task.session_id read at line 92
      sandbox      |-> NoSandbox,\* the handle create_sandbox returned
      branch_name  |-> Null,
      ra_session   |-> Null,     \* run_agent: session_id
      ra_result    |-> Null,     \* run_agent: result_text
      ra_timed_out |-> FALSE,    \* run_agent: timed_out
      ra_reported  |-> Null,     \* run_agent: session_id after line 185
      ra_written   |-> Null,     \* run_agent: the transcript file of the
                                 \* sandbox at the copy (Null: there is none)
      ra_copy      |-> "none",   \* run_agent: what raised in the copy step
      out_session  |-> Null,     \* output["session_id"]
      out_result   |-> Null,     \* output["result"]
      out_timed    |-> FALSE,    \* output["timed_out"]
      status       |-> "none",   \* the final status decided at lines 165-173
      result       |-> Null,
      ret          |-> "none",   \* "status" of the dict returned
      exc          |-> "none" ]  \* the exception the invocation is raising

\* no call of wait_for_task is under way
WaitOff ==
    [ pc |-> "off", timeout |-> 0, poll_interval |-> 0,
      elapsed  |-> 0,      \* seconds since start_time (line 121)
      checked  |-> 0,      \* time.time() - start_time at the last check
      polls    |-> 0,      \* calls of get_task
      sleeps   |-> 0,      \* calls of time.sleep
      slept    |-> 0,      \* the argument of the last time.sleep
      observed |-> <<>>,   \* the statuses polled, in order
      ret      |-> Null,   \* the status of the task returned
      exc      |-> Null ]  \* the exception raised

\* no call of get_task_logs is under way
PageOff ==
    [ pc |-> "off",
      exists   |-> FALSE,   \* the id has a row
      file     |-> Null,    \* logs/tasks/<id>/session.jsonl, a sequence of
                            \* lines (Null: there is no file)
      readable |-> TRUE,    \* open and the reading of the file raise nothing
      limit    |-> 0,
      offset   |-> 0,
      raised   |-> "none",  \* the exception get_task_logs raised
      logs     |-> <<>>,    \* the (logs, total) returned
      total    |-> 0 ]

\* no executions are compared
RunsOff ==
    [ pc     |-> <<"off", "off">>,
      code   |-> <<0, 0>>,     \* the exit code of the agent process
      stdout |-> Null,         \* what the agent printed
      file   |-> Null,         \* the transcript file listed in the sandbox
      copy   |-> "none",       \* what raised in the copy step
      jsonl  |-> Null,         \* the content of the transcript file
      out    |-> <<Null, Null>> ]  \* what each execution has persisted

\* no function is called on its own
CallOff == [ pc |-> "off", fn |-> "none", arg |-> Null, ret |-> Null ]

\* the script is not run
ScriptOff ==
    [ pc |-> "off",
      sid     |-> "none",   \* the session id the agent's messages carry
      seen    |-> <<>>,     \* the types of the messages received
      results |-> [session_id |-> Null, result |-> Null],
      exists  |-> FALSE,    \* /tmp/task_output.json exists
      file    |-> <<>>,     \* its content
      w       |-> "none",   \* the write_text under way: "opened" once the
                            \* file is open and truncated, "written" once
                            \* the text is in the buffer of the handle
      buf     |-> <<>>,     \* the buffer of the open handle
      flushed |-> FALSE,    \* a write of a recorded session id has
                            \* completed
      before  |-> <<>>,     \* the content when SIGTERM arrived
      hit     |-> "none",   \* where SIGTERM arrived
      code    |-> 0 ]       \* the exit code of the process

AsideOff ==
    /\ wait = WaitOff /\ page = PageOff /\ runs = RunsOff
    /\ call = CallOff /\ script = ScriptOff

CallsInit ==
    [ kill |-> 0, kill_raised |-> FALSE, agent |-> 0, clone |-> "none", branch |-> "none",
      commit |-> "none", push |-> "none",
      git_status |-> "none",   \* git status --porcelain printed "changes"
                               \* or nothing ("clean")
      writes |-> {},     \* sandbox.files.write(path, content) calls made
      resume |-> Null,   \* resume_session_id given to run_agent
      cmd    |-> Null,   \* the agent command given to the gateway
      branch_cmd |-> Null,   \* the branch command given to the gateway
      agent_timeout |-> FALSE,   \* the gateway raised its timeout signal
                                 \* for the agent command
      agent_error |-> FALSE ]    \* the agent command or the parse of its
                                 \* output met an unexpected error

Init ==
    /\ AsideOff
    /\ \E exists \in BOOLEAN, b \in {Null, Str("resume-branch")} :
          task = IF exists THEN WithBranchName(NewTask(TRUE), b)
                 ELSE NewTask(FALSE)
    /\ stored = Null
    /\ live = {}
    /\ orphans = FALSE
    /\ deliveries = 0
    /\ pc = [e \in Workers |-> IF e = 1 THEN "idle" ELSE "off"]
    /\ msg = [e \in Workers |-> 0]
    /\ retries = [e \in Workers |-> 0]
    /\ loc = [e \in Workers |-> LocInit]
    /\ calls = [e \in Workers |-> CallsInit]

----------------------------------------------------------------------------
(* Steps of one worker.  Every gateway call and every registry write is one
   step, so that the attempts of two workers interleave between them. *)

\* worker e moves to p with locals l and call record c
Step(e, p, l, c) ==
    /\ pc' = [pc EXCEPT ![e] = p]
    /\ loc' = [loc EXCEPT ![e] = l]
    /\ calls' = [calls EXCEPT ![e] = c]

\* an exception x raised inside the try block of execute_task (lines 101-227):
\* control goes to the finally clause
RaiseInTry(e, x) == Step(e, "kill", [loc[e] EXCEPT !.exc = x], calls[e])

\* an exception x raised before the try block: it leaves execute_task at once
RaiseOutside(e, x) == Step(e, "exit", [loc[e] EXCEPT !.exc = x], calls[e])

\* The broker hands the task's message to an idle worker: the first delivery,
\* or a redelivery of a message that was not acknowledged (task_acks_late).
Deliver(e) ==
    /\ pc[e] = "idle"
    /\ deliveries < MaxDeliveries
    /\ deliveries' = deliveries + 1
    /\ msg' = [msg EXCEPT ![e] = deliveries + 1]
    /\ retries' = [retries EXCEPT ![e] = 0]
    /\ Step(e, "get_task", LocInit, CallsInit)
    /\ UNCHANGED <<aside, task, stored, live, orphans>>

\* mutant: the lookup returns a row object whether the id has a row or not
GetTask_NoCheck(e) ==
    /\ pc[e] = "get_task"
    /\ Step(e, "mark_running",
            [loc[e] EXCEPT !.task_branch = task.branch_name,
                           !.task_session = task.session_id],
            calls[e])
    /\ UNCHANGED <<aside, task, stored, live, orphans, deliveries, msg, retries>>

\* execute_task line 92: task = TaskService.get_task_by_id(task_id)
GetTask(e) ==
    /\ pc[e] = "get_task"
    /\ IF task.exists
       THEN Step(e, "mark_running",
                 [loc[e] EXCEPT !.task_branch = task.branch_name,
                                !.task_session = task.session_id],
                 calls[e])
       ELSE RaiseOutside(e, "NotFoundError")
    /\ UNCHANGED <<aside, task, stored, live, orphans, deliveries, msg, retries>>

\* mutant: the sandbox is created without the row being marked running first
MarkRunning_NoWrite(e) ==
    /\ pc[e] = "mark_running"
    /\ task' = task
    /\ Step(e, "create_sandbox", loc[e], calls[e])
    /\ UNCHANGED <<aside, stored, live, orphans, deliveries, msg, retries>>

\* execute_task line 95: update_task_status(task_id, "running")
MarkRunning(e) ==
    /\ pc[e] = "mark_running"
    /\ task' = UpdateTaskStatus(task, "running", Null, NoSandbox, Null)
    /\ Step(e, "create_sandbox", loc[e], calls[e])
    /\ UNCHANGED <<aside, stored, live, orphans, deliveries, msg, retries>>

\* execute_task line 99, SandboxService.create_sandbox: the credential checks
\* or Sandbox.create raise and nothing is provisioned; or the sandbox is
\* provisioned and commands.run("start-services") raises (its timeout signal;
\* a non-zero exit raises too, run_command is not used here), so that
\* create_sandbox raises and no handle is returned; or the handle is returned.
CreateSandbox(e) ==
    /\ pc[e] = "create_sandbox"
    /\ \E outcome \in {"ValueError", "TimeoutException", "created"} :
          CASE outcome = "ValueError" ->
                  /\ RaiseOutside(e, outcome)
                  /\ UNCHANGED <<live, orphans>>
            [] outcome = "created" ->
                  /\ live' = live \cup {SandboxId(e)}
                  /\ Step(e, "record_sandbox",
                          [loc[e] EXCEPT !.sandbox = SandboxId(e)], calls[e])
                  /\ UNCHANGED orphans
            [] OTHER ->
                  /\ orphans' = TRUE
                  /\ RaiseOutside(e, outcome)
                  /\ UNCHANGED live
    /\ UNCHANGED <<aside, task, stored, deliveries, msg, retries>>

\* execute_task lines 103-105:
\* update_task_status(task_id, "running", sandbox_id=sandbox.sandbox_id)
RecordSandbox(e) ==
    /\ pc[e] = "record_sandbox"
    /\ task' = UpdateTaskStatus(task, "running", Null, loc[e].sandbox, Null)
    /\ Step(e, "setup_email", loc[e], calls[e])
    /\ UNCHANGED <<aside, stored, live, orphans, deliveries, msg, retries>>

----------------------------------------------------------------------------
(* setup_sandbox_environment, lines 16-76 *)

\* a run_command whose result the caller does not look at: only an exception
\* of the gateway changes the control flow
IgnoredCommand(e, here, next) ==
    /\ pc[e] = here
    /\ \E gw \in Responses(EmptyStr, Str("stderr")) :
          LET r == RunCommand(gw) IN
          IF r.raised # "none" THEN RaiseInTry(e, r.raised)
          ELSE Step(e, next, loc[e], calls[e])
    /\ UNCHANGED <<aside, task, stored, live, orphans, deliveries, msg, retries>>

\* lines 30-32: git config --global user.email
SetupGitEmail(e) == IgnoredCommand(e, "setup_email", "setup_name")

\* lines 33-35: git config --global user.name
SetupGitName(e) == IgnoredCommand(e, "setup_name", "setup_sdk")

\* lines 40-49: uv pip install --system claude-agent-sdk; a non-zero exit
\* raises RuntimeError
SetupInstallSdk(e) ==
    /\ pc[e] = "setup_sdk"
    /\ \E gw \in Responses(EmptyStr, Str("stderr")) :
          LET r == RunCommand(gw) IN
          IF r.raised # "none" THEN RaiseInTry(e, r.raised)
          ELSE IF r.exit_code # 0 THEN RaiseInTry(e, "RuntimeError")
          ELSE Step(e, "setup_cred", loc[e], calls[e])
    /\ UNCHANGED <<aside, task, stored, live, orphans, deliveries, msg, retries>>

\* lines 54-57: git config --global credential.helper
SetupCredentialHelper(e) == IgnoredCommand(e, "setup_cred", "setup_tk_clone")

\* lines 58-63, 75-76: git clone of the toolkit; the install script is run only
\* after a zero exit
SetupToolkitClone(e) ==
    /\ pc[e] = "setup_tk_clone"
    /\ \E gw \in Responses(EmptyStr, Str("stderr")) :
          LET r == RunCommand(gw) IN
          IF r.raised # "none" THEN RaiseInTry(e, r.raised)
          ELSE IF r.exit_code = 0
          THEN Step(e, "setup_tk_install", loc[e], calls[e])
          ELSE Step(e, "clone", loc[e], calls[e])
    /\ UNCHANGED <<aside, task, stored, live, orphans, deliveries, msg, retries>>

\* lines 65-74: ./install.sh of the toolkit
SetupToolkitInstall(e) == IgnoredCommand(e, "setup_tk_install", "clone")

----------------------------------------------------------------------------
(* Repository staging, execute_task lines 110-149 *)

\* "ok" for a zero exit code, "nonzero" otherwise
ExitKind(r) == IF r.exit_code = 0 THEN "ok" ELSE "nonzero"

CloneStderr == "repository not found"
BranchStderr == "pathspec did not match"

\* lines 112-122: git clone; a non-zero exit builds the error text and goes to
\* the failed write
Clone(e) ==
    /\ pc[e] = "clone"
    /\ \E gw \in Responses(EmptyStr, Str(CloneStderr)) :
          LET r == RunCommand(gw) IN
          IF r.raised # "none" THEN RaiseInTry(e, r.raised)
          ELSE IF r.exit_code # 0
          THEN Step(e, "staging_failed",
                    [loc[e] EXCEPT
                        !.result = <<"Failed to clone repo: ">> \o r.stderr],
                    [calls[e] EXCEPT !.clone = "nonzero"])
          ELSE Step(e, "branch", loc[e], [calls[e] EXCEPT !.clone = "ok"])
    /\ UNCHANGED <<aside, task, stored, live, orphans, deliveries, msg, retries>>

\* mutant: the branch is always created, whether task.branch_name is set or not
BranchCommand_AlwaysCreate(task_branch) ==
    [ name |-> <<"ca/task/", TaskId>>,
      cmd  |-> <<"cd /home/user/repo && git checkout -b ", "ca/task/", TaskId>>,
      what |-> "Failed to create branch " ]

\* lines 125-131, 137-143: the branch name, the command and the error prefix:
\* git checkout of task.branch_name when it is truthy, otherwise
\* git checkout -b ca/task/<task id>
BranchCommand(task_branch) ==
    IF Truthy(task_branch)
    THEN [ name |-> task_branch,
           cmd  |-> <<"cd /home/user/repo && git checkout ">> \o task_branch,
           what |-> "Failed to checkout branch " ]
    ELSE [ name |-> <<"ca/task/", TaskId>>,
           cmd  |-> <<"cd /home/user/repo && git checkout -b ", "ca/task/",
                      TaskId>>,
           what |-> "Failed to create branch " ]

\* lines 125-149: the branch command; a non-zero exit builds the error text and
\* goes to the failed write
Branch(e) ==
    /\ pc[e] = "branch"
    /\ LET bc == BranchCommand(loc[e].task_branch)
           name == bc.name
           what == bc.what
           l == [loc[e] EXCEPT !.branch_name = name]
       IN \E gw \in Responses(EmptyStr, Str(BranchStderr)) :
          LET r == RunCommand(gw) IN
          IF r.raised # "none"
          THEN Step(e, "kill", [l EXCEPT !.exc = r.raised],
                    [calls[e] EXCEPT !.branch_cmd = bc.cmd])
          ELSE IF r.exit_code # 0
          THEN Step(e, "staging_failed",
                    [l EXCEPT
                        !.result = <<what>> \o name \o <<": ">> \o r.stderr],
                    [calls[e] EXCEPT !.branch = "nonzero",
                                     !.branch_cmd = bc.cmd])
          ELSE Step(e, "run_agent", l,
                    [calls[e] EXCEPT !.branch = "ok", !.branch_cmd = bc.cmd])
    /\ UNCHANGED <<aside, task, stored, live, orphans, deliveries, msg, retries>>

\* mutant: the failed write is not followed by the return
StagingFailedWrite_NoReturn(e) ==
    /\ pc[e] = "staging_failed"
    /\ task' = UpdateTaskStatus(task, "failed", loc[e].result, NoSandbox, Null)
    /\ Step(e, "run_agent", [loc[e] EXCEPT !.ret = "failed"], calls[e])
    /\ UNCHANGED <<aside, stored, live, orphans, deliveries, msg, retries>>

\* lines 119-120, 135-136, 147-148:
\* update_task_status(task_id, "failed", result=error); return
StagingFailedWrite(e) ==
    /\ pc[e] = "staging_failed"
    /\ task' = UpdateTaskStatus(task, "failed", loc[e].result, NoSandbox, Null)
    /\ Step(e, "kill", [loc[e] EXCEPT !.ret = "failed"], calls[e])
    /\ UNCHANGED <<aside, stored, live, orphans, deliveries, msg, retries>>

----------------------------------------------------------------------------
(* SandboxService.run_agent, sandbox.py lines 113-238 *)

\* The stdout of claude -p --output-format json, as tokens: nothing, text
\* that is no JSON, a JSON value that is no object, or an object with an
\* optional session_id and an optional result (possibly the empty string).
JsonObject(session_id, result) ==
    <<"{">> \o (IF session_id = Null THEN <<>> ELSE <<"session_id">> \o session_id)
            \o (IF result = Null THEN <<>> ELSE <<"result">> \o result)
            \o <<"}">>

AgentStdouts ==
    { EmptyStr, <<"garbage">>, <<"[", "]">> }
    \cup { JsonObject(s, r) : s \in {Null, Str("s1")},
                              r \in {Null, EmptyStr, Str("done")} }

\* json.loads(stdout): a JSONDecodeError, or the value with the kind of value
JsonLoads(stdout) ==
    IF stdout[1] = "{" /\ stdout[Len(stdout)] = "}"
    THEN [error |-> "none", isdict |-> TRUE, value |-> stdout]
    ELSE IF stdout[1] = "[" /\ stdout[Len(stdout)] = "]"
    THEN [error |-> "none", isdict |-> FALSE, value |-> stdout]
    ELSE [error |-> "JSONDecodeError", isdict |-> FALSE, value |-> Null]

\* response.get(key) on a parsed object: the value after the key, else None
JsonGet(obj, key) ==
    IF \E i \in 1..(Len(obj) - 1) : obj[i] = key
    THEN Str(obj[(CHOOSE i \in 1..(Len(obj) - 1) : obj[i] = key) + 1])
    ELSE Null

\* what the gateway can answer to the agent command: a result or a non-zero
\* exit with any stdout, the timeout signal, or another error
AgentResponses ==
    { GwReturn(0, so, EmptyStr) : so \in AgentStdouts }
    \cup { GwExit(1, so, Str("stderr")) : so \in AgentStdouts }
    \cup { GwTimeout,
           [kind |-> "SandboxException", exit_code |-> 0, stdout |-> Null,
            stderr |-> Null] }

\* The errors of the agent step that are neither a non-zero exit, nor the
\* timeout signal, nor a JSONDecodeError: an exception of the gateway, or
\* output that parses to a JSON value without .get
UnexpectedError(gw) ==
    \/ gw.kind \notin {"return", "CommandExitException", "TimeoutException"}
    \/ /\ gw.kind \in {"return", "CommandExitException"}
       /\ Truthy(gw.stdout)
       /\ JsonLoads(gw.stdout).error = "none"
       /\ ~JsonLoads(gw.stdout).isdict

\* mutant: every exception of the agent step but the timeout is logged and
\* dropped
ParseAgentRun_SwallowsErrors(gw) ==
    LET r == RunCommand(gw)
        none == [session_id |-> Null, result_text |-> Null,
                 timed_out |-> FALSE, raised |-> "none"]
    IN IF r.raised = "TimeoutException" THEN [none EXCEPT !.timed_out = TRUE]
       ELSE IF r.raised # "none" THEN none
       ELSE IF ~Truthy(r.stdout) THEN none
       ELSE LET j == JsonLoads(r.stdout) IN
            IF j.error # "none" THEN none
            ELSE IF ~j.isdict THEN none
            ELSE [none EXCEPT !.session_id = JsonGet(j.value, "session_id"),
                              !.result_text = JsonGet(j.value, "result")]

\* mutant: the timeout signal of the gateway is raised again like any other
\* exception
ParseAgentRun_TimeoutRaises(gw) ==
    LET r == RunCommand(gw)
        none == [session_id |-> Null, result_text |-> Null,
                 timed_out |-> FALSE, raised |-> "none"]
    IN IF r.raised # "none" THEN [none EXCEPT !.raised = r.raised]
       ELSE IF ~Truthy(r.stdout) THEN none
       ELSE LET j == JsonLoads(r.stdout) IN
            IF j.error # "none" THEN none
            ELSE IF ~j.isdict THEN [none EXCEPT !.raised = "AttributeError"]
            ELSE [none EXCEPT !.session_id = JsonGet(j.value, "session_id"),
                              !.result_text = JsonGet(j.value, "result")]

\* mutant: the output of an agent that exited non-zero is not parsed
ParseAgentRun_ExitCodeFails(gw) ==
    LET r == RunCommand(gw)
        none == [session_id |-> Null, result_text |-> Null,
                 timed_out |-> FALSE, raised |-> "none"]
    IN IF r.raised = "TimeoutException" THEN [none EXCEPT !.timed_out = TRUE]
       ELSE IF r.raised # "none" THEN [none EXCEPT !.raised = r.raised]
       ELSE IF r.exit_code # 0 THEN none
       ELSE IF ~Truthy(r.stdout) THEN none
       ELSE LET j == JsonLoads(r.stdout) IN
            IF j.error # "none" THEN none
            ELSE IF ~j.isdict THEN [none EXCEPT !.raised = "AttributeError"]
            ELSE [none EXCEPT !.session_id = JsonGet(j.value, "session_id"),
                              !.result_text = JsonGet(j.value, "result")]

\* lines 160-185 of sandbox.py: what the try block leaves in session_id,
\* result_text and timed_out, and the exception it re-raises
ParseAgentRun(gw) ==
    LET r == RunCommand(gw)
        none == [session_id |-> Null, result_text |-> Null,
                 timed_out |-> FALSE, raised |-> "none"]
    IN IF r.raised = "TimeoutException" THEN [none EXCEPT !.timed_out = TRUE]
       ELSE IF r.raised # "none" THEN [none EXCEPT !.raised = r.raised]
       ELSE IF ~Truthy(r.stdout) THEN none
       ELSE LET j == JsonLoads(r.stdout) IN
            IF j.error # "none" THEN none
            ELSE IF ~j.isdict THEN [none EXCEPT !.raised = "AttributeError"]
            ELSE [none EXCEPT !.session_id = JsonGet(j.value, "session_id"),
                              !.result_text = JsonGet(j.value, "result")]

\* shlex.quote(s): a text of safe characters is returned as it is, any other
\* text is wrapped in single quotes
SafeTokens == SessionIds \cup {"s0"}

ShlexQuote(s) == IF s[1] \in SafeTokens THEN s ELSE <<"'">> \o s \o <<"'">>

\* lines 148-153: the command line of the agent; --resume is added when
\* resume_session_id is truthy
ClaudeCmd(prompt, resume_session_id) ==
    <<"cd /home/user/repo && echo ">> \o ShlexQuote(prompt)
        \o <<" | claude -p --dangerously-skip-permissions">>
        \o (IF Truthy(resume_session_id)
            THEN <<" --resume ">> \o ShlexQuote(resume_session_id) ELSE <<>>)
        \o <<" --output-format json">>

\* execute_task lines 152-157 and sandbox.py lines 148-185: run_agent is called
\* with resume_session_id=task.session_id; the agent command and the parse of
\* its stdout
RunAgentCommand(e) ==
    /\ pc[e] = "run_agent"
    /\ \E gw \in AgentResponses :
          LET a == ParseAgentRun(gw)
              c == [calls[e] EXCEPT
                       !.agent = @ + 1,
                       !.resume = loc[e].task_session,
                       !.agent_timeout = (gw.kind = "TimeoutException"),
                       !.agent_error = UnexpectedError(gw),
                       !.cmd = ClaudeCmd(task.prompt, loc[e].task_session)]
          IN IF a.raised # "none"
             THEN Step(e, "kill", [loc[e] EXCEPT !.exc = a.raised], c)
             ELSE Step(e, "agent_store",
                       [loc[e] EXCEPT !.ra_session = a.session_id,
                                      !.ra_result = a.result_text,
                                      !.ra_timed_out = a.timed_out],
                       c)
    /\ UNCHANGED <<aside, task, stored, live, orphans, deliveries, msg, retries>>

SessionDir == "/home/user/.claude/projects/-home-user-repo/"

\* a transcript of k complete lines: the agent appends whole lines
RECURSIVE Lines(_)
Lines(k) == IF k = 0 THEN <<>> ELSE Lines(k - 1) \o <<"message", "\n">>

\* the transcript the agent has written when the copy step reads it
Transcript == Lines(1)

Transcripts == { Transcript, Lines(3) }

\* mutant: the copy keeps the first line of the transcript only
SessionJsonl_FirstLine(old, session_files, failure, session_jsonl) ==
    IF failure = "none" /\ session_files # <<>>
    THEN SubSeq(session_jsonl, 1, 2) ELSE EmptyStr

\* mutant: no placeholder is written when the copy fails or finds nothing
SessionJsonl_NoPlaceholder(old, session_files, failure, session_jsonl) ==
    IF failure = "none" /\ session_files # <<>> THEN session_jsonl ELSE old

\* lines 193-232: logs/tasks/<id>/session.jsonl after the copy step: the
\* content read from the first listed file, or the empty text when no file is
\* listed or when the listing or the read raised
SessionJsonl(old, session_files, failure, session_jsonl) ==
    IF failure = "none" /\ session_files # <<>> THEN session_jsonl ELSE EmptyStr

\* lines 234-238: the dict run_agent returns
RunAgentReturn(session_id, result_text, timed_out) ==
    [ session_id |-> session_id,
      result     |-> PyOr(result_text,
                          IF timed_out THEN Str("Task timed out")
                          ELSE Str("No result")),
      timed_out  |-> timed_out ]

\* lines 211, 217-220: the session id after the copy step: the one the agent
\* reported or, when it reported none and a transcript was read, the name of
\* the transcript file without .jsonl
DiscoverSessionId(session_id, session_files, failure) ==
    IF failure = "none" /\ session_files # <<>> /\ ~Truthy(session_id)
    THEN SelectSeq(Tail(session_files[1]), LAMBDA t : t # ".jsonl")
    ELSE session_id

\* lines 190-232: list the session directory, copy the first transcript to
\* logs/tasks/<id>/session.jsonl (an empty placeholder when there is none or
\* when the listing or the read raises) and take the session id from the file
\* name when the agent reported none.  The directory holds the transcript of
\* the session the agent reported or, when it reported none, of any session,
\* or nothing.
AgentStore(e) ==
    /\ pc[e] = "agent_store"
    /\ \E file \in {Null} \cup
                   { <<SessionDir, s, ".jsonl">> :
                       s \in IF Truthy(loc[e].ra_session)
                             THEN {loc[e].ra_session[1]} ELSE SessionIds },
          failure \in {"none", "ls", "read"},
          session_jsonl \in Transcripts :
          LET session_files == IF file = Null THEN <<>> ELSE <<file>>
              found == failure = "none" /\ session_files # <<>>
              session_id == DiscoverSessionId(loc[e].ra_session,
                                              session_files, failure)
          IN /\ (failure = "read" => file # Null)
             /\ (file = Null => session_jsonl = Transcript)
             /\ stored' = SessionJsonl(stored, session_files, failure,
                                       session_jsonl)
             /\ Step(e, "agent_return",
                     [loc[e] EXCEPT
                         !.ra_reported = loc[e].ra_session,
                         !.ra_session = session_id,
                         !.ra_written = IF file = Null THEN Null
                                        ELSE session_jsonl,
                         !.ra_copy = failure],
                     calls[e])
    /\ UNCHANGED <<aside, task, live, orphans, deliveries, msg, retries>>

\* lines 234-238 of sandbox.py and 152, 160-162 of execute_task: run_agent
\* returns its dict, its other locals are gone
AgentReturn(e) ==
    /\ pc[e] = "agent_return"
    /\ LET out == RunAgentReturn(loc[e].ra_session, loc[e].ra_result,
                                 loc[e].ra_timed_out)
       IN Step(e, "decide",
               [loc[e] EXCEPT !.out_session = out.session_id,
                              !.out_result = out.result,
                              !.out_timed = out.timed_out,
                              !.ra_reported = Null,
                              !.ra_written = Null,
                              !.ra_copy = "none"],
               calls[e])
    /\ UNCHANGED <<aside, task, stored, live, orphans, deliveries, msg, retries>>

----------------------------------------------------------------------------
(* Final status and reconciliation, execute_task lines 159-227 *)

TimedOutText == "Task timed out. Partial result: "
NoResultText == "Task failed - no result returned"

\* mutant: a result text wins over the timeout flag
DetermineFinal_ResultFirst(timed_out, agent_result) ==
    IF Truthy(agent_result)
    THEN [status |-> "completed", result |-> agent_result]
    ELSE IF timed_out
    THEN [status |-> "failed", result |-> <<TimedOutText, "None">>]
    ELSE [status |-> "failed", result |-> Str(NoResultText)]

\* lines 165-173: the final status and result from the agent output
DetermineFinal(timed_out, agent_result) ==
    IF timed_out
    THEN [status |-> "failed",
          result |-> <<TimedOutText>> \o PyOr(agent_result, Str("None"))]
    ELSE IF Truthy(agent_result)
    THEN [status |-> "completed", result |-> agent_result]
    ELSE [status |-> "failed", result |-> Str(NoResultText)]

\* lines 160-176: extract the output, decide, and commit only when completed
Decide(e) ==
    /\ pc[e] = "decide"
    /\ LET f == DetermineFinal(loc[e].out_timed, loc[e].out_result) IN
       Step(e, IF f.status = "completed" THEN "git_add" ELSE "final_write",
            [loc[e] EXCEPT !.status = f.status, !.result = f.result],
            calls[e])
    /\ UNCHANGED <<aside, task, stored, live, orphans, deliveries, msg, retries>>

\* line 180: git add -A
GitAdd(e) == IgnoredCommand(e, "git_add", "git_status")

\* mutant: the commit is issued whatever git status printed
GitStatus_AlwaysCommit(e) ==
    /\ pc[e] = "git_status"
    /\ \E gw \in Responses(EmptyStr, Str("stderr"))
                 \cup {GwReturn(0, Str(" M test.txt"), EmptyStr)} :
          LET r == RunCommand(gw) IN
          IF r.raised # "none" THEN RaiseInTry(e, r.raised)
          ELSE Step(e, "git_commit", loc[e],
                    [calls[e] EXCEPT !.git_status =
                        IF Truthy(r.stdout) THEN "changes" ELSE "clean"])
    /\ UNCHANGED <<aside, task, stored, live, orphans, deliveries, msg, retries>>

\* lines 183-187, 208-209: git status --porcelain; commit only when it printed
\* something
GitStatus(e) ==
    /\ pc[e] = "git_status"
    /\ \E gw \in Responses(EmptyStr, Str("stderr"))
                 \cup {GwReturn(0, Str(" M test.txt"), EmptyStr)} :
          LET r == RunCommand(gw) IN
          IF r.raised # "none" THEN RaiseInTry(e, r.raised)
          ELSE IF Truthy(r.stdout)
          THEN Step(e, "git_commit", loc[e],
                    [calls[e] EXCEPT !.git_status = "changes"])
          ELSE Step(e, "final_write", loc[e],
                    [calls[e] EXCEPT !.git_status = "clean"])
    /\ UNCHANGED <<aside, task, stored, live, orphans, deliveries, msg, retries>>

\* lines 189-195, 206-207: git commit; push only after a zero exit
GitCommit(e) ==
    /\ pc[e] = "git_commit"
    /\ \E gw \in Responses(EmptyStr, Str("stderr")) :
          LET r == RunCommand(gw) IN
          IF r.raised # "none"
          THEN Step(e, "kill", [loc[e] EXCEPT !.exc = r.raised],
                    [calls[e] EXCEPT !.commit = "raised"])
          ELSE Step(e, IF r.exit_code = 0 THEN "git_push" ELSE "final_write",
                    loc[e], [calls[e] EXCEPT !.commit = ExitKind(r)])
    /\ UNCHANGED <<aside, task, stored, live, orphans, deliveries, msg, retries>>

\* lines 197-205: git push -u origin <branch>; its exit code is only logged
GitPush(e) ==
    /\ pc[e] = "git_push"
    /\ \E gw \in Responses(EmptyStr, Str("stderr")) :
          LET r == RunCommand(gw) IN
          IF r.raised # "none"
          THEN Step(e, "kill", [loc[e] EXCEPT !.exc = r.raised],
                    [calls[e] EXCEPT !.push = "raised"])
          ELSE Step(e, "final_write", loc[e],
                    [calls[e] EXCEPT !.push = ExitKind(r)])
    /\ UNCHANGED <<aside, task, stored, live, orphans, deliveries, msg, retries>>

\* mutant: branch_name is passed whatever the status
FinalUpdate_AlwaysBranch(row, status, result, session_id, branch_name) ==
    WithBranchName(UpdateTaskStatus(row, status, result, NoSandbox, session_id),
                   branch_name)

\* lines 211-224: the row after the final update_task_status; branch_name is
\* passed only when the status is completed
FinalUpdate(row, status, result, session_id, branch_name) ==
    IF status = "completed"
    THEN WithBranchName(
             UpdateTaskStatus(row, status, result, NoSandbox, session_id),
             branch_name)
    ELSE UpdateTaskStatus(row, status, result, NoSandbox, session_id)

\* lines 211-227: the final write and the return
FinalWrite(e) ==
    /\ pc[e] = "final_write"
    /\ task' = FinalUpdate(task, loc[e].status, loc[e].result,
                           loc[e].out_session, loc[e].branch_name)
    /\ Step(e, "kill", [loc[e] EXCEPT !.ret = loc[e].status], calls[e])
    /\ UNCHANGED <<aside, stored, live, orphans, deliveries, msg, retries>>

----------------------------------------------------------------------------
(* Teardown, execute_task lines 229-235 *)

\* mutant: the cleanup follows the try block instead of being its finally
\* clause, so that an invocation that is raising skips it
Kill_AfterTry(e) ==
    /\ pc[e] = "kill"
    /\ IF loc[e].exc # "none"
       THEN /\ Step(e, "exit", loc[e], calls[e])
            /\ orphans' = orphans
            /\ live' = live
       ELSE /\ live' = live \ {loc[e].sandbox}
            /\ orphans' = orphans
            /\ Step(e, "exit", loc[e], [calls[e] EXCEPT !.kill = @ + 1])
    /\ UNCHANGED <<aside, task, stored, deliveries, msg, retries>>

\* mutant: the exception of kill is not caught: it replaces the return value
\* or the exception of the body
Kill_Reraises(e) ==
    /\ pc[e] = "kill"
    /\ live' = live \ {loc[e].sandbox}
    /\ \E outcome \in {"killed", "raised", "raised_alive"} :
          /\ orphans' = (orphans \/ outcome = "raised_alive")
          /\ Step(e, "exit",
                  IF outcome = "killed" THEN loc[e]
                  ELSE [loc[e] EXCEPT !.exc = "SandboxException",
                                      !.ret = "none"],
                  [calls[e] EXCEPT !.kill = @ + 1,
                                   !.kill_raised = outcome # "killed"])
    /\ UNCHANGED <<aside, task, stored, deliveries, msg, retries>>

\* the finally clause: sandbox.kill(); an exception of kill is logged and
\* dropped.  kill raises for a sandbox that is already gone, or leaves the
\* sandbox alive: the invocation has given up its handle either way.
Kill(e) ==
    /\ pc[e] = "kill"
    /\ live' = live \ {loc[e].sandbox}
    /\ \E outcome \in {"killed", "raised", "raised_alive"} :
          /\ orphans' = (orphans \/ outcome = "raised_alive")
          /\ Step(e, "exit", loc[e],
                  [calls[e] EXCEPT !.kill = @ + 1,
                                   !.kill_raised = outcome # "killed"])
    /\ UNCHANGED <<aside, task, stored, deliveries, msg, retries>>

----------------------------------------------------------------------------
(* The Celery task, app/tasks/agent_execution.py lines 12-41 *)

\* line 31: execute_task returned; the message is acknowledged
WrapperReturn(e) ==
    /\ pc[e] = "exit"
    /\ loc[e].exc = "none"
    /\ Step(e, "idle", LocInit, CallsInit)
    /\ UNCHANGED <<aside, task, stored, live, orphans, deliveries, msg, retries>>

\* mutant: the last retry is tested with > instead of >=
WrapperFailure_OffByOne(row, request_retries, exc) ==
    IF request_retries > max_retries
    THEN UpdateTaskStatus(row, "failed", <<"Error: ", exc>>, NoSandbox, Null)
    ELSE row

\* mutant: the failure is written on every attempt that raised
WrapperFailure_EveryAttempt(row, request_retries, exc) ==
    UpdateTaskStatus(row, "failed", <<"Error: ", exc>>, NoSandbox, Null)

\* the row after lines 36-39: on the last retry the task is marked failed with
\* the text of the exception
WrapperFailure(row, request_retries, exc) ==
    IF request_retries >= max_retries
    THEN UpdateTaskStatus(row, "failed", <<"Error: ", exc>>, NoSandbox, Null)
    ELSE row

\* lines 32-41: execute_task raised; update_task_status raises NotFoundError
\* itself when the id has no row; the exception is raised again
WrapperExcept(e) ==
    /\ pc[e] = "exit"
    /\ loc[e].exc # "none"
    /\ IF task.exists
       THEN /\ task' = WrapperFailure(task, retries[e], loc[e].exc)
            /\ Step(e, "autoretry", loc[e], calls[e])
       ELSE /\ task' = task
            /\ Step(e, "autoretry",
                    [loc[e] EXCEPT !.exc = IF retries[e] >= max_retries
                                           THEN "NotFoundError" ELSE @],
                    calls[e])
    /\ UNCHANGED <<aside, stored, live, orphans, deliveries, msg, retries>>

\* autoretry_for=(Exception,), max_retries=3: the attempt is run again with
\* request.retries + 1 until the retries are used up, then the message is
\* dropped
AutoRetry(e) ==
    /\ pc[e] = "autoretry"
    /\ IF retries[e] < max_retries
       THEN /\ retries' = [retries EXCEPT ![e] = @ + 1]
            /\ Step(e, "get_task", LocInit, CallsInit)
       ELSE /\ retries' = retries
            /\ Step(e, "idle", LocInit, CallsInit)
    /\ UNCHANGED <<aside, task, stored, live, orphans, deliveries, msg>>

----------------------------------------------------------------------------

WorkerStep(e) ==
    \/ GetTask(e) \/ MarkRunning(e) \/ CreateSandbox(e) \/ RecordSandbox(e)
    \/ SetupGitEmail(e) \/ SetupGitName(e) \/ SetupInstallSdk(e)
    \/ SetupCredentialHelper(e) \/ SetupToolkitClone(e)
    \/ SetupToolkitInstall(e)
    \/ Clone(e) \/ Branch(e) \/ StagingFailedWrite(e)
    \/ RunAgentCommand(e) \/ AgentStore(e) \/ AgentReturn(e) \/ Decide(e)
    \/ GitAdd(e) \/ GitStatus(e) \/ GitCommit(e) \/ GitPush(e)
    \/ FinalWrite(e) \/ Kill(e)
    \/ WrapperReturn(e) \/ WrapperExcept(e) \/ AutoRetry(e)

\* the provider ends the sandboxes left without an owner when their lifetime
\* (settings.sandbox_timeout) has elapsed
ReapOrphans ==
    /\ orphans
    /\ orphans' = FALSE
    /\ UNCHANGED <<aside, task, stored, live, deliveries, pc, msg, retries, loc, calls>>

Next == ReapOrphans \/ \E e \in Workers : Deliver(e) \/ WorkerStep(e)

Spec == Init /\ [][Next]_vars

\* the scheduling of a worker process: an attempt that can take a step takes
\* it, and Celery runs the retries it has scheduled
FairSpec == Init /\ [][Next]_vars /\ \A e \in Workers : WF_vars(WorkerStep(e))

\* execute_task with run_agent replaced by a stub that returns any output
\* dict, as the tests of execute_task do: the invocation stands at line 159
\* with an arbitrary output
AnyOutputs ==
    { [session_id |-> s, result |-> r, timed_out |-> t] :
        s \in {Null, Str("s1")},
        r \in {Null, EmptyStr, Str("done"), Str("Partial work done")},
        t \in BOOLEAN }

InitAnyOutput ==
    /\ AsideOff
    /\ \E out \in AnyOutputs, b \in {Null, Str("resume-branch")} :
          /\ task = UpdateTaskStatus(WithBranchName(NewTask(TRUE), b), "running",
                                     Null, 1, Null)
          /\ loc = [e \in Workers |->
                      IF e = 1
                      THEN [LocInit EXCEPT
                              !.task_branch = b,
                              !.sandbox = 1,
                              !.branch_name = IF b # Null THEN b
                                              ELSE <<"ca/task/", TaskId>>,
                              !.out_session = out.session_id,
                              !.out_result = out.result,
                              !.out_timed = out.timed_out]
                      ELSE LocInit]
    /\ stored = Null
    /\ live = {1}
    /\ orphans = FALSE
    /\ deliveries = 1
    /\ pc = [e \in Workers |-> IF e = 1 THEN "decide" ELSE "off"]
    /\ msg = [e \in Workers |-> IF e = 1 THEN 1 ELSE 0]
    /\ retries = [e \in Workers |-> 0]
    /\ calls = [e \in Workers |->
                  IF e = 1
                  THEN [CallsInit EXCEPT !.clone = "ok", !.branch = "ok",
                                         !.agent = 1]
                  ELSE CallsInit]

SpecAnyOutput == InitAnyOutput /\ [][Next]_vars

\* The task a resumed task names as its parent: a completed task with a
\* session id, whose stored artifacts are a transcript and one changed file (as
\* test_execute_task_with_parent_file_restoration sets them up).
ParentId == "t0"

ParentTask ==
    [NewTask(TRUE) EXCEPT !.status = "completed", !.session_id = Str("s0")]

\* logs/tasks/<parent id>/files: relative path and content
ParentFiles == { [path |-> "existing.txt", content |-> Str("Existing content")] }

\* logs/tasks/<parent id>/session.jsonl
ParentTranscript == <<"{\"type\":\"test\",\"data\":\"session data\"}", "\n">>

\* create_task(prompt, repository_url, parent_task_id): the row of a task that
\* may name a parent
InitResume ==
    /\ AsideOff
    /\ \E p \in {Null, Str(ParentId)}, b \in {Null, Str("resume-branch")} :
          task = [WithBranchName(NewTask(TRUE), b) EXCEPT !.parent_task_id = p]
    /\ stored = Null
    /\ live = {}
    /\ orphans = FALSE
    /\ deliveries = 0
    /\ pc = [e \in Workers |-> IF e = 1 THEN "idle" ELSE "off"]
    /\ msg = [e \in Workers |-> 0]
    /\ retries = [e \in Workers |-> 0]
    /\ loc = [e \in Workers |-> LocInit]
    /\ calls = [e \in Workers |-> CallsInit]

SpecResume == InitResume /\ [][Next]_vars

----------------------------------------------------------------------------
(* Properties *)

\* positions inside the try block of execute_task, before the finally clause
InTry(e) ==
    pc[e] \notin {"off", "idle", "get_task", "mark_running", "create_sandbox",
                  "exit", "autoretry"}

\* the invocation of worker e has ended (returned or raised)
Ended(e) == pc[e] \in {"exit", "autoretry"}

Returned(e) == Ended(e) /\ loc[e].exc = "none"

\* C1: an invocation that holds a sandbox handle has not called kill while it
\* is in the body, and has called kill exactly once, on that sandbox, when it
\* has returned or raised.
C1_KillExactlyOnce ==
    \A e \in Workers :
        /\ (InTry(e) /\ pc[e] # "kill") =>
              (calls[e].kill = 0 /\ loc[e].sandbox \in live)
        /\ (Ended(e) /\ loc[e].sandbox # NoSandbox) =>
              (calls[e].kill = 1 /\ loc[e].sandbox \notin live)
        /\ (Ended(e) /\ loc[e].sandbox = NoSandbox) => calls[e].kill = 0

\* an invocation that raised after the agent had run, with its sandbox killed
C1_Witness ==
    \E e \in Workers :
        /\ pc[e] = "exit" /\ loc[e].exc = "TimeoutException"
        /\ calls[e].agent = 1 /\ loc[e].sandbox # NoSandbox
        /\ calls[e].kill = 1

\* C2: every change of the persisted status is pending->running,
\* running->completed or running->failed.
C2_StatusMonotonic ==
    [][task'.status # task.status =>
          <<task.status, task'.status>> \in
              { <<"pending", "running">>, <<"running", "completed">>,
                <<"running", "failed">> }]_vars

C4_StagingFailure ==
    \A e \in Workers :
        (Ended(e) /\ (calls[e].clone = "nonzero" \/ calls[e].branch = "nonzero"))
        => /\ loc[e].exc = "none" /\ loc[e].ret = "failed"
           /\ task.status = "failed"
           /\ Contains(task.result,
                       IF calls[e].clone = "nonzero" THEN CloneStderr
                       ELSE BranchStderr)
           /\ calls[e].agent = 0
           /\ calls[e].commit = "none" /\ calls[e].push = "none"
           /\ calls[e].kill = 1

\* the checkout of the branch failed after a successful clone
C4_Witness ==
    \E e \in Workers :
        /\ pc[e] = "exit" /\ calls[e].clone = "ok"
        /\ calls[e].branch = "nonzero"
        /\ task.status = "failed" /\ Contains(task.result, BranchStderr)

\* the invocation of worker e has decided its final status (lines 165-173)
Decided(e) == loc[e].status # "none"

\* C5: the final status follows the decision table: failed with the timed-out
\* text and the partial result when timed_out, completed with the result text
\* when not timed out and a result is present, failed with the no-result
\* message otherwise; and that is what a returning invocation persists.
C5_DecisionTable ==
    \A e \in Workers :
        Decided(e) =>
            LET t == loc[e].out_timed
                r == loc[e].out_result
            IN /\ t => /\ loc[e].status = "failed"
                       /\ loc[e].result[1] = TimedOutText
                       /\ Truthy(r) => loc[e].result = <<TimedOutText>> \o r
               /\ (~t /\ Truthy(r)) =>
                       (loc[e].status = "completed" /\ loc[e].result = r)
               /\ (~t /\ ~Truthy(r)) =>
                       (loc[e].status = "failed"
                        /\ loc[e].result = Str(NoResultText))
               /\ Returned(e) =>
                       (task.status = loc[e].status
                        /\ task.result = loc[e].result)

\* a timed-out output that carries a result text was persisted as failed
C5_Witness ==
    \E e \in Workers :
        /\ Returned(e) /\ loc[e].out_timed
        /\ loc[e].out_result = Str("Partial work done")
        /\ task.status = "failed"
        /\ task.result = <<TimedOutText, "Partial work done">>

\* C6: when the agent ended without a timeout and without a usable result,
\* run_agent returns a null result and the task is persisted as failed.
C6_NoUsableResultFails ==
    \A e \in Workers :
        (Decided(e) /\ ~loc[e].ra_timed_out /\ ~Truthy(loc[e].ra_result)) =>
            /\ loc[e].out_result = Null
            /\ Returned(e) => task.status = "failed"

\* C7 as stated: after an invocation that returns, branch_name is non-null
\* if and only if the status is completed.
C7_BranchIffCompleted ==
    \A e \in Workers :
        Returned(e) => (task.branch_name # Null <=> task.status = "completed")

\* C7 as amended: an invocation that returns has written branch_name if and
\* only if it persisted completed: after completed the row holds the run's
\* non-null branch, after failed it holds the branch_name the run read when it
\* started.
C7_BranchWrittenIffCompleted ==
    \A e \in Workers :
        Returned(e) =>
            /\ loc[e].ret \in Terminal /\ task.status = loc[e].ret
            /\ loc[e].ret = "completed" =>
                  (Truthy(task.branch_name)
                   /\ task.branch_name = loc[e].branch_name)
            /\ loc[e].ret = "failed" => task.branch_name = loc[e].task_branch

\* a run that failed after the agent ran on a new branch left branch_name null
C7_Witness ==
    \E e \in Workers :
        /\ Returned(e) /\ loc[e].ret = "failed" /\ calls[e].agent = 1
        /\ Truthy(loc[e].branch_name) /\ task.branch_name = Null

\* C8: when the agent returned a result, the commit succeeded and the push
\* exited non-zero, the task is completed and the run has persisted no
\* branch_name.
C8_PushFailureOmitsBranch ==
    \A e \in Workers :
        (Returned(e) /\ Truthy(loc[e].ra_result) /\ calls[e].commit = "ok"
            /\ calls[e].push = "nonzero") =>
            (task.status = "completed"
             /\ task.branch_name = loc[e].task_branch)

\* C9: once the status was decided as completed, the invocation ends with the
\* task persisted as completed with the agent's result text, whatever the
\* reconciliation commands did.
C9_SideEffectsKeepCompleted ==
    \A e \in Workers :
        (Ended(e) /\ loc[e].status = "completed") =>
            /\ loc[e].exc = "none"
            /\ task.status = "completed"
            /\ task.result = loc[e].out_result

SetupSteps ==
    {"setup_email", "setup_name", "setup_sdk", "setup_cred", "setup_tk_clone",
     "setup_tk_install"}

\* C10: a step of setup_sandbox_environment is followed by another of its
\* steps or by the clone: the preparation never raises.
C10_SetupNeverRaises ==
    [][\A e \in Workers :
          pc[e] \in SetupSteps => pc'[e] \in SetupSteps \cup {"clone"}]_vars

\* C11: when kill raises, the finally clause changes neither the value the
\* invocation returns, nor the exception the body is raising, nor the row: the
\* invocation that had computed a status returns it, the one that was raising
\* raises the body's exception.
C11_KillRaisesSwallowed ==
    [][\A e \in Workers :
          (pc[e] = "kill" /\ pc'[e] = "exit" /\ calls'[e].kill_raised) =>
              /\ loc'[e].exc = loc[e].exc
              /\ loc'[e].ret = loc[e].ret
              /\ loc[e].exc = "none" => loc'[e].ret = task'.status
              /\ task' = task]_vars

\* kill raised after the task was persisted as completed, and the invocation
\* has returned completed
C11_Witness ==
    \E e \in Workers :
        /\ pc[e] = "exit" /\ calls[e].kill_raised /\ loc[e].exc = "none"
        /\ loc[e].ret = "completed" /\ task.status = "completed"

\* the agent process of worker e's invocation has been started
AgentStarted(e) == calls[e].agent > 0

\* the sandbox paths of the restored artifacts
RepoDir == "/home/user/repo/"

\* C12: when the agent of a task with a parent is started, every file of the
\* parent's artifact directory has been written into the repository under its
\* relative path and the parent's transcript has been written into the session
\* directory as <parent session_id>.jsonl (the clone was done before).
C12_ParentRestoredBeforeAgent ==
    \A e \in Workers :
        (AgentStarted(e) /\ task.parent_task_id # Null) =>
            /\ calls[e].clone = "ok"
            /\ \A f \in ParentFiles :
                  [path |-> <<RepoDir, f.path>>, content |-> f.content]
                      \in calls[e].writes
            /\ Truthy(ParentTask.session_id) =>
                  [path |-> <<SessionDir>> \o ParentTask.session_id
                                \o <<".jsonl">>,
                   content |-> ParentTranscript] \in calls[e].writes

\* C13: the session id given to run_agent is the parent's session id when the
\* task names a parent, none otherwise, and the command line carries --resume
\* exactly when that id is present.
C13_ResumeParentSession ==
    \A e \in Workers :
        AgentStarted(e) =>
            /\ calls[e].resume = IF task.parent_task_id # Null
                                 THEN ParentTask.session_id ELSE Null
            /\ Contains(calls[e].cmd, " --resume ") <=> calls[e].resume # Null

\* C14: what the staging of a task with a parent has written into its sandbox
\* before the agent starts has the content of the parent's stored transcript
\* and of each of its stored files.
C14_ArtifactsRoundTrip ==
    \A e \in Workers :
        (AgentStarted(e) /\ task.parent_task_id # Null) =>
            /\ \E w \in calls[e].writes : w.content = ParentTranscript
            /\ \A f \in ParentFiles :
                  \E w \in calls[e].writes : w.content = f.content

\* the command of worker e's staging was a checkout of an existing branch
CheckedOut(e) == calls[e].branch_cmd[1] = "cd /home/user/repo && git checkout "

\* an earlier attempt of the task got past its branch command: the stored
\* transcript it left is there while worker e has just run its own
EarlierAttemptBranched(e) ==
    pc[e] \in {"run_agent", "staging_failed"} /\ stored # Null

AfterRunAgent(e) == AgentStarted(e) /\ (pc[e] = "decide" \/ Decided(e))

\* C16: after the timeout signal of the gateway for the agent command the
\* invocation raises nothing: run_agent goes on to the copy of the transcript
\* and returns timed_out = TRUE, the status decided is failed with the
\* timed-out text, and that is what is persisted and returned.
C16_AgentTimeoutIsData ==
    \A e \in Workers :
        calls[e].agent_timeout =>
            /\ loc[e].exc = "none"
            /\ loc[e].ra_timed_out
            /\ pc[e] \notin {"git_add", "git_status", "git_commit", "git_push",
                              "autoretry"}
            /\ AfterRunAgent(e) => (stored # Null /\ loc[e].out_timed)
            /\ Decided(e) =>
                  (loc[e].status = "failed" /\ loc[e].result[1] = TimedOutText)
            /\ Ended(e) =>
                  /\ loc[e].ret = "failed"
                  /\ task.status = "failed"
                  /\ Contains(task.result, TimedOutText)

\* an invocation whose agent command timed out has returned failed, with the
\* transcript copied
C16_Witness ==
    \E e \in Workers :
        /\ pc[e] = "exit" /\ calls[e].agent_timeout /\ loc[e].ret = "failed"
        /\ stored = Transcript
        /\ task.result = <<TimedOutText, "Task timed out">>

\* run_agent of worker e is about to return: the copy step is done
AtRunAgentReturn(e) == pc[e] = "agent_return"

\* every line of the text s is complete: s is k >= 1 whole lines
CompleteLines(s) == \E k \in 1..(Len(s) \div 2) : s = Lines(k)

C18_SessionFileAlwaysWritten ==
    \A e \in Workers :
        /\ (AtRunAgentReturn(e) \/ AfterRunAgent(e)) => stored # Null
        /\ AtRunAgentReturn(e) =>
              (stored = EmptyStr <=>
                  (loc[e].ra_written = Null \/ loc[e].ra_copy # "none"))

\* the read of an existing transcript raised and the placeholder was written
C18_Witness ==
    \E e \in Workers :
        /\ AtRunAgentReturn(e) /\ loc[e].ra_copy = "read"
        /\ loc[e].ra_written = Lines(3) /\ stored = EmptyStr

\* C19: when the agent reported no session id and a transcript file exists in
\* the session directory, run_agent returns the id of the file name, and the
\* id run_agent returns is persisted on the task by an invocation that
\* returns, whatever its final status.
C19_SessionIdDiscovered ==
    \A e \in Workers :
        /\ (AtRunAgentReturn(e) /\ ~Truthy(loc[e].ra_reported)
                /\ loc[e].ra_written # Null) =>
              (Truthy(loc[e].ra_session) /\ loc[e].ra_session[1] \in SessionIds)
        /\ (Returned(e) /\ AgentStarted(e) /\ Truthy(loc[e].out_session)) =>
              task.session_id = loc[e].out_session

\* C20: after an unexpected error of the agent command or of the parse of its
\* output the invocation is raising that error: it goes through the teardown
\* to the wrapper without deciding a status, without writing the row, and
\* without running the agent a second time; the retry is the wrapper's.
C20_UnexpectedErrorPropagates ==
    /\ [](\A e \in Workers :
            calls[e].agent_error =>
                /\ loc[e].exc \in {"SandboxException", "AttributeError"}
                /\ pc[e] \in {"kill", "exit", "autoretry"}
                /\ ~Decided(e) /\ loc[e].ret = "none"
                /\ calls[e].agent = 1
                /\ pc[e] \in {"kill", "exit"} => task.status = "running"
                /\ Ended(e) => calls[e].kill = 1)
    /\ [][\A e \in Workers :
            (calls[e].agent_error /\ pc[e] = "kill") => task' = task]_vars

\* the error of the gateway has reached the wrapper, which schedules a retry
C20_Witness ==
    \E e \in Workers :
        /\ pc[e] = "autoretry" /\ retries[e] < max_retries
        /\ calls[e].agent_error /\ loc[e].exc = "SandboxException"
        /\ calls[e].kill = 1 /\ task.status = "running"

----------------------------------------------------------------------------
(* The sandbox dies under the agent run *)

\* sandbox.py line 162 when the provider kills the sandbox while the agent
\* command runs: the call in flight raises, the timeout signal of the gateway
\* or another of its exceptions
SandboxKilledResponses ==
    { gw \in AgentResponses : gw.kind \in {"TimeoutException", "SandboxException"} }

\* the agent command of worker e's invocation got one of those answers
AgentCommandRaised(e) ==
    \/ calls[e].agent_timeout
    \/ calls[e].agent_error /\ loc[e].exc = "SandboxException"

\* C21: when the sandbox is killed under the agent command, the invocation
\* raises nothing and ends like a run timeout: it returns failed and the row
\* is failed with the timed-out result.
C21_SandboxDeathIsTimeout ==
    \A e \in Workers :
        AgentCommandRaised(e) =>
            /\ loc[e].exc = "none"
            /\ Ended(e) =>
                  /\ loc[e].ret = "failed"
                  /\ task.status = "failed"
                  /\ Contains(task.result, TimedOutText)

----------------------------------------------------------------------------
(* The retries of the Celery task *)

\* the wrapper of worker e has caught the exception of execute_task and is
\* raising it again (line 41)
WrapperRaising(e) == pc[e] = "autoretry"

\* C22: a message is run at most max_retries + 1 times; the wrapper raises
\* again the exception execute_task raised, on every attempt; before the last
\* retry it leaves the row as it is, which is running, and on the last retry
\* it writes failed with the text of the exception.
C22_RetriesThenFailed ==
    /\ [](\A e \in Workers :
            /\ retries[e] \in 0..max_retries
            /\ WrapperRaising(e) => loc[e].exc # "none"
            /\ (WrapperRaising(e) /\ task.exists) =>
                  IF retries[e] < max_retries
                  THEN task.status = "running"
                  ELSE /\ task.status = "failed"
                       /\ task.result = <<"Error: ", loc[e].exc>>)
    /\ [][\A e \in Workers :
            (pc[e] = "exit" /\ loc[e].exc # "none") =>
                /\ pc'[e] = "autoretry" => loc'[e].exc = loc[e].exc
                /\ retries[e] < max_retries => task' = task]_vars

\* the fourth attempt raised in the agent step and the wrapper wrote the
\* failure
C22_Witness ==
    \E e \in Workers :
        /\ WrapperRaising(e) /\ retries[e] = max_retries
        /\ loc[e].exc = "SandboxException" /\ calls[e].agent = 1
        /\ task.status = "failed"
        /\ task.result = <<"Error: ", "SandboxException">>

----------------------------------------------------------------------------
(* An id without a row *)

\* C23: when the id has no row, execute_task raises NotFoundError from the
\* lookup: no sandbox is created, no command is run, no file is written and
\* the registry is left as it was.
C23_UnknownTaskRaises ==
    \A e \in Workers :
        ~task.exists =>
            /\ pc[e] \in {"off", "idle", "get_task", "exit", "autoretry"}
            /\ Ended(e) => loc[e].exc = "NotFoundError"
            /\ loc[e].sandbox = NoSandbox /\ live = {} /\ ~orphans
            /\ calls[e] = CallsInit
            /\ stored = Null
            /\ task = NewTask(FALSE)

\* execute_task has raised NotFoundError for an id without a row
C23_Witness ==
    \E e \in Workers :
        /\ ~task.exists /\ pc[e] = "exit" /\ loc[e].exc = "NotFoundError"
        /\ calls[e] = CallsInit /\ live = {}

----------------------------------------------------------------------------
(* Sandboxes of one task *)

\* the sandboxes of the task that are alive at the provider: those an
\* invocation holds a handle of, and those left without an owner
LiveSandboxes == Cardinality(live) + (IF orphans THEN 1 ELSE 0)

\* C24: at most one sandbox of the task is alive at any moment, and an attempt
\* that has ended, or that has not yet created its sandbox, leaves none alive.
C24_AtMostOneLiveSandbox ==
    /\ LiveSandboxes <= 1
    /\ (\A e \in Workers : ~InTry(e)) => LiveSandboxes = 0

----------------------------------------------------------------------------
(* ApiClientService.wait_for_task, app/services/api_client.py lines 103-135 *)

\* the largest timeout and poll_interval given, in seconds
MaxTimeout == 3
MaxPollInterval == 2

\* the most seconds that pass between two readings of the clock beside the
\* sleep
MaxTick == 1

\* the most polls of one wait that are followed
MaxPolls == 3

\* the statuses a poll can show
Statuses == {"pending", "running", "completed", "failed", "cancelled"}

\* line 130: status in ["completed", "failed", "cancelled"]
WaitDone(status) == status \in {"completed", "failed", "cancelled"}

\* raise_for_status() in get_task: the status codes it raises for
HttpErrors == {404, 500}

\* mutant: the wait gives up when the time elapsed has reached the timeout
TimedOut_AtTimeout(elapsed, timeout) == elapsed >= timeout

\* line 124: time.time() - start_time > timeout
TimedOut(elapsed, timeout) == elapsed > timeout

\* lines 121-122: start_time = time.time(), and the loop is entered
InitWait ==
    /\ \E t \in 0..MaxTimeout, p \in 0..MaxPollInterval :
          wait = [WaitOff EXCEPT !.pc = "check", !.timeout = t,
                                 !.poll_interval = p]
    /\ page = PageOff /\ runs = RunsOff /\ call = CallOff /\ script = ScriptOff
    /\ task = NewTask(TRUE)
    /\ stored = Null
    /\ live = {}
    /\ orphans = FALSE
    /\ deliveries = 0
    /\ pc = [e \in Workers |-> "off"]
    /\ msg = [e \in Workers |-> 0]
    /\ retries = [e \in Workers |-> 0]
    /\ loc = [e \in Workers |-> LocInit]
    /\ calls = [e \in Workers |-> CallsInit]

\* lines 124-125: the clock is read, some time after the last reading; the
\* wait raises TimeoutError when the timeout is exceeded
CheckTimeout ==
    /\ wait.pc = "check"
    /\ \E d \in 0..MaxTick :
          LET now == wait.elapsed + d IN
          wait' = [wait EXCEPT
                      !.elapsed = now,
                      !.checked = now,
                      !.pc = IF TimedOut(now, wait.timeout) THEN "raised"
                             ELSE "poll",
                      !.exc = IF TimedOut(now, wait.timeout)
                              THEN <<"TimeoutError">> ELSE @]
    /\ UNCHANGED <<exec, page, runs, call, script>>

\* mutant: a poll that shows a status that is not final is repeated at once
Poll_NoSleep ==
    /\ wait.pc = "poll"
    /\ wait.polls < MaxPolls
    /\ \/ \E status \in Statuses :
             wait' = [wait EXCEPT
                         !.polls = @ + 1,
                         !.observed = Append(@, status),
                         !.pc = IF WaitDone(status) THEN "returned"
                                ELSE "check",
                         !.ret = IF WaitDone(status) THEN Str(status) ELSE @]
       \/ \E code \in HttpErrors :
             wait' = [wait EXCEPT
                         !.polls = @ + 1,
                         !.pc = "raised",
                         !.exc = <<"HTTPStatusError", code>>]
    /\ UNCHANGED <<exec, page, runs, call, script>>

\* lines 127-131: get_task(task_id); the task is returned when its status is
\* final; an HTTPStatusError of get_task leaves wait_for_task
Poll ==
    /\ wait.pc = "poll"
    /\ wait.polls < MaxPolls
    /\ \/ \E status \in Statuses :
             wait' = [wait EXCEPT
                         !.polls = @ + 1,
                         !.observed = Append(@, status),
                         !.pc = IF WaitDone(status) THEN "returned"
                                ELSE "sleep",
                         !.ret = IF WaitDone(status) THEN Str(status) ELSE @]
       \/ \E code \in HttpErrors :
             wait' = [wait EXCEPT
                         !.polls = @ + 1,
                         !.pc = "raised",
                         !.exc = <<"HTTPStatusError", code>>]
    /\ UNCHANGED <<exec, page, runs, call, script>>

\* line 133: time.sleep(poll_interval)
Sleep ==
    /\ wait.pc = "sleep"
    /\ wait' = [wait EXCEPT !.sleeps = @ + 1,
                            !.slept = wait.poll_interval,
                            !.elapsed = @ + wait.poll_interval,
                            !.pc = "check"]
    /\ UNCHANGED <<exec, page, runs, call, script>>

NextWait == CheckTimeout \/ Poll \/ Sleep

SpecWait == InitWait /\ [][NextWait]_vars

\* C25: the task wait_for_task returns is the last one polled, its status is
\* completed, failed or cancelled and no earlier poll showed such a status;
\* every poll but the last was followed by one sleep of poll_interval seconds,
\* so that the sleeps are one fewer than the polls.
C25_ReturnsFirstFinalStatus ==
    /\ wait.pc = "returned" =>
          /\ wait.polls = Len(wait.observed) /\ wait.polls >= 1
          /\ wait.ret = Str(wait.observed[wait.polls])
          /\ WaitDone(wait.ret[1])
          /\ \A i \in 1..(wait.polls - 1) :
                wait.observed[i] \in {"pending", "running"}
          /\ wait.sleeps = wait.polls - 1
          /\ wait.sleeps > 0 => wait.slept = wait.poll_interval
          /\ wait.elapsed >= wait.sleeps * wait.poll_interval
          /\ wait.exc = Null
    /\ wait.pc = "sleep" =>
          /\ wait.observed[wait.polls] \in {"pending", "running"}
          /\ wait.sleeps = wait.polls - 1
    /\ (wait.pc = "poll" /\ wait.polls > 0) =>
          /\ wait.observed[wait.polls] \in {"pending", "running"}
          /\ wait.sleeps = wait.polls

\* pending, running, completed: three polls and two sleeps
C25_Witness ==
    /\ wait.pc = "returned"
    /\ wait.observed = <<"pending", "running", "completed">>
    /\ wait.sleeps = 2 /\ wait.ret = Str("completed")

\* C26: a poll is made only after a reading of the clock that did not exceed
\* the timeout; TimeoutError is raised by the first reading that exceeds it,
\* with no poll after that reading (and no poll at all when it is the first
\* reading); an HTTPStatusError of a poll leaves the wait as it is, with no
\* sleep and no poll after it.
C26_TimeoutBeforeEveryPoll ==
    /\ [](/\ wait.pc = "poll" => wait.checked <= wait.timeout
          /\ (wait.pc = "raised" /\ wait.exc = <<"TimeoutError">>) =>
                /\ wait.checked > wait.timeout
                /\ wait.polls = wait.sleeps
                /\ wait.ret = Null
          /\ (wait.pc = "raised" /\ wait.exc # <<"TimeoutError">>) =>
                /\ wait.exc[1] = "HTTPStatusError"
                /\ wait.exc[2] \in HttpErrors
                /\ wait.polls = wait.sleeps + 1
                /\ wait.ret = Null)
    /\ [][/\ wait'.polls # wait.polls =>
                (wait.pc = "poll" /\ wait.checked = wait.elapsed)
          /\ (wait.pc = "check" /\ wait'.checked > wait.timeout) =>
                (wait'.pc = "raised" /\ wait'.exc = <<"TimeoutError">>
                   /\ wait'.polls = wait.polls)
          /\ wait.pc = "raised" => wait' = wait]_vars

\* the timeout is exceeded at the first reading of the clock: no poll
C26_Witness ==
    /\ wait.pc = "raised" /\ wait.exc = <<"TimeoutError">>
    /\ wait.polls = 0 /\ wait.sleeps = 0

----------------------------------------------------------------------------
(* TaskService.get_task_logs, app/services/task.py lines 120-180 *)

\* the most lines of a transcript file, and the largest limit and offset asked
MaxFileLines == 3
MaxLimit == 3
MaxOffset == 3

\* A line of the file is a sequence of tokens that ends with the newline: an
\* empty line, a blank line, two JSON objects (one of them indented) and a
\* line that is no JSON.
FileLines ==
    { <<"\n">>, <<" ", "\n">>, <<"{", "a", "}", "\n">>,
      <<" ", "{", "b", "}", " ", "\n">>, <<"oops", "\n">> }

RECURSIVE Files(_)
Files(n) ==
    IF n = 0 THEN { <<>> }
    ELSE Files(n - 1) \cup { Append(f, l) : f \in Files(n - 1), l \in FileLines }

Whitespace == {" ", "\n"}

\* str.strip(): the text without its leading and trailing whitespace
RECURSIVE Strip(_)
Strip(line) ==
    IF line = <<>> THEN EmptyStr
    ELSE IF Head(line) \in Whitespace THEN Strip(Tail(line))
    ELSE IF line[Len(line)] \in Whitespace
    THEN Strip(SubSeq(line, 1, Len(line) - 1))
    ELSE line

\* lines 170-174: json.loads(line), or the error entry with the raw line
LogEntry(line) ==
    IF JsonLoads(line).error = "none"
    THEN [kind |-> "json", text |-> JsonLoads(line).value]
    ELSE [kind |-> "Failed to parse", text |-> line]

\* mutant: the lines after the page are not counted
LogLoop_StopsAtLimit(f, limit, offset, acc) ==
    LET RECURSIVE loop(_, _)
        loop(g, a) ==
            IF g = <<>> \/ (Len(a.logs) >= limit /\ a.line_num >= offset) THEN a
            ELSE LET line == Strip(Head(g)) IN
                 loop(Tail(g),
                      IF ~Truthy(line) THEN a
                      ELSE IF a.line_num < offset
                      THEN [a EXCEPT !.total = @ + 1, !.line_num = @ + 1]
                      ELSE [a EXCEPT !.total = @ + 1,
                                     !.logs = Append(@, LogEntry(line)),
                                     !.line_num = @ + 1])
    IN loop(f, acc)

\* lines 153-176: the loop over the lines of the file; acc is logs, total and
\* line_num
LogLoop(f, limit, offset, acc) ==
    LET RECURSIVE loop(_, _)
        loop(g, a) ==
            IF g = <<>> THEN a
            ELSE LET line == Strip(Head(g))
                     b == [a EXCEPT !.total = @ + 1]
                 IN loop(Tail(g),
                         IF ~Truthy(line) THEN a
                         ELSE IF b.line_num < offset
                         THEN [b EXCEPT !.line_num = @ + 1]
                         ELSE IF Len(b.logs) >= limit THEN b
                         ELSE [b EXCEPT !.logs = Append(@, LogEntry(line)),
                                        !.line_num = @ + 1])
    IN loop(f, acc)

\* get_task_logs(task_id, limit, offset): NotFoundError of get_task_by_id for
\* an id without a row, ([], 0) when there is no file or when reading it
\* raises, else what the loop has collected
GetTaskLogs(exists, file, readable, limit, offset) ==
    IF ~exists THEN [raised |-> "NotFoundError", logs |-> <<>>, total |-> 0]
    ELSE IF file = Null \/ ~readable
    THEN [raised |-> "none", logs |-> <<>>, total |-> 0]
    ELSE LET a == LogLoop(file, limit, offset,
                          [logs |-> <<>>, total |-> 0, line_num |-> 0])
         IN [raised |-> "none", logs |-> a.logs, total |-> a.total]

\* a call of get_task_logs with any limit and offset (the route passes the
\* integers of the query as they are), for an id with or without a row and
\* with or without a transcript file
InitLogs ==
    /\ \E exists \in BOOLEAN, readable \in BOOLEAN,
          file \in {Null} \cup (Files(MaxFileLines) \ {<<>>}),
          limit \in -1..MaxLimit, offset \in -1..MaxOffset :
          /\ (~readable => (exists /\ file # Null))
          /\ page = [PageOff EXCEPT !.pc = "call", !.exists = exists,
                                    !.file = file, !.readable = readable,
                                    !.limit = limit, !.offset = offset]
    /\ wait = WaitOff /\ runs = RunsOff /\ call = CallOff /\ script = ScriptOff
    /\ task = NewTask(TRUE)
    /\ stored = Null
    /\ live = {}
    /\ orphans = FALSE
    /\ deliveries = 0
    /\ pc = [e \in Workers |-> "off"]
    /\ msg = [e \in Workers |-> 0]
    /\ retries = [e \in Workers |-> 0]
    /\ loc = [e \in Workers |-> LocInit]
    /\ calls = [e \in Workers |-> CallsInit]

CallGetTaskLogs ==
    /\ page.pc = "call"
    /\ LET r == GetTaskLogs(page.exists, page.file, page.readable, page.limit,
                            page.offset)
       IN page' = [page EXCEPT !.pc = "done", !.raised = r.raised,
                               !.logs = r.logs, !.total = r.total]
    /\ UNCHANGED <<exec, wait, runs, call, script>>

SpecLogs == InitLogs /\ [][CallGetTaskLogs]_vars

\* the lines of the file that are not blank, stripped
NonEmptyLines(file) ==
    LET stripped == [i \in 1..Len(file) |-> Strip(file[i])]
    IN SelectSeq(stripped, Truthy)

\* the entries of the lines first to last (counted from 0) of ls
EntriesOf(ls, first, last) ==
    LET lo == IF first < 0 THEN 0 ELSE first
        hi == IF last > Len(ls) - 1 THEN Len(ls) - 1 ELSE last
    IN [i \in 1..(IF hi >= lo THEN hi - lo + 1 ELSE 0) |-> LogEntry(ls[lo + i])]

\* C27 as stated: the logs returned are the entries of the non-empty lines
\* offset to offset + limit - 1, the total is the number of non-empty lines;
\* no file gives ([], 0) and an id without a row raises NotFoundError.
C27_LogsPage ==
    page.pc = "done" =>
        IF ~page.exists THEN page.raised = "NotFoundError"
        ELSE IF page.file = Null
        THEN page.raised = "none" /\ page.logs = <<>> /\ page.total = 0
        ELSE /\ page.raised = "none"
             /\ page.logs = EntriesOf(NonEmptyLines(page.file), page.offset,
                                      page.offset + page.limit - 1)
             /\ page.total = Len(NonEmptyLines(page.file))

\* C27 as amended: a negative offset is taken as 0, and a file whose reading
\* raises gives ([], 0) like a missing file.
C27_LogsPageFromZero ==
    page.pc = "done" =>
        IF ~page.exists THEN page.raised = "NotFoundError"
        ELSE IF page.file = Null \/ ~page.readable
        THEN page.raised = "none" /\ page.logs = <<>> /\ page.total = 0
        ELSE LET first == IF page.offset < 0 THEN 0 ELSE page.offset IN
             /\ page.raised = "none"
             /\ page.logs = EntriesOf(NonEmptyLines(page.file), first,
                                      first + page.limit - 1)
             /\ page.total = Len(NonEmptyLines(page.file))

\* the second page of one line, of a file of three lines of which one is no
\* JSON
C27_Witness ==
    /\ page.pc = "done" /\ page.limit = 1 /\ page.offset = 1
    /\ page.file = << <<"{", "a", "}", "\n">>, <<"oops", "\n">>,
                      <<"{", "a", "}", "\n">> >>
    /\ page.logs = << [kind |-> "Failed to parse", text |-> <<"oops">>] >>
    /\ page.total = 3

----------------------------------------------------------------------------
(* The registry writes of one invocation *)

\* worker e is inside execute_task
InExecuteTask(e) == pc[e] \notin {"off", "idle", "exit", "autoretry"}

\* C28: the first write of an invocation is running, right after the lookup
\* and before the sandbox is created; the only writes of a terminal status are
\* the write of a staging failure and the final write, each the last write of
\* its invocation, which then returns that status; every other step inside
\* execute_task leaves the row as it is or writes running, so that an
\* invocation that raises has written no terminal status.
C28_RunningThenOneTerminalWrite ==
    /\ [](\A e \in Workers :
            /\ pc[e] = "create_sandbox" =>
                  (task.status = "running" /\ loc[e].sandbox = NoSandbox
                     /\ loc[e].sandbox \notin live)
            /\ (InExecuteTask(e) /\ loc[e].ret = "none" /\ task.exists
                   /\ pc[e] \notin {"get_task", "mark_running"}) =>
                  task.status = "running"
            /\ loc[e].ret # "none" =>
                  /\ pc[e] \in {"kill", "exit"} /\ loc[e].exc = "none"
                  /\ loc[e].ret \in Terminal /\ task.status = loc[e].ret
            /\ Returned(e) => loc[e].ret \in Terminal
            /\ (pc[e] = "exit" /\ loc[e].exc # "none") =>
                  (loc[e].ret = "none" /\ (task.exists => task.status = "running")))
    /\ [][\A e \in Workers :
            (InExecuteTask(e) /\ pc'[e] # pc[e]) =>
                CASE pc[e] = "get_task" ->
                        task' = task /\ pc'[e] \in {"mark_running", "exit"}
                  [] pc[e] \in {"mark_running", "record_sandbox"} ->
                        task'.status = "running"
                  [] pc[e] \in {"staging_failed", "final_write"} ->
                        /\ task'.status \in Terminal
                        /\ loc[e].ret = "none" /\ loc'[e].ret = task'.status
                        /\ pc'[e] = "kill"
                  [] OTHER -> task' = task]_vars

\* an invocation has returned completed after its one terminal write
C28_Witness ==
    \E e \in Workers :
        /\ Returned(e) /\ loc[e].ret = "completed"
        /\ task.status = "completed" /\ calls[e].kill = 1

----------------------------------------------------------------------------
(* The order of the steps of one execution *)

\* the place of a position of execute_task in the text of its try block and
\* finally clause (lines 107-235)
StepOrder(p) ==
    CASE p \in {"record_sandbox", "setup_email", "setup_name", "setup_sdk",
                "setup_cred", "setup_tk_clone", "setup_tk_install"} -> 0
      [] p = "clone" -> 1
      [] p = "branch" -> 2
      [] p = "staging_failed" -> 3
      [] p = "run_agent" -> 4
      [] p = "agent_store" -> 5
      [] p = "agent_return" -> 6
      [] p = "decide" -> 7
      [] p = "git_add" -> 8
      [] p = "git_status" -> 9
      [] p = "git_commit" -> 10
      [] p = "git_push" -> 11
      [] p = "final_write" -> 12
      [] p = "kill" -> 13
      [] OTHER -> 14

\* C29: git add, git status, commit and push are run only after the status
\* was decided completed; the commit only after git status, run after git
\* add, printed changes; the push only after a commit that exited zero; and an
\* invocation only moves forward through clone, branch, agent run, commit and
\* push, final write and kill: the agent has run when a status is decided,
\* nothing is committed after the final write and kill comes last.
C29_CommitPushOrder ==
    /\ [](\A e \in Workers :
            /\ pc[e] \in {"git_add", "git_status", "git_commit", "git_push"} =>
                  (loc[e].status = "completed" /\ loc[e].ret = "none"
                     /\ calls[e].kill = 0)
            /\ calls[e].git_status # "none" => loc[e].status = "completed"
            /\ (pc[e] = "git_commit" \/ calls[e].commit # "none") =>
                  calls[e].git_status = "changes"
            /\ (pc[e] = "git_push" \/ calls[e].push # "none") =>
                  calls[e].commit = "ok"
            /\ calls[e].branch # "none" => calls[e].clone = "ok"
            /\ calls[e].agent > 0 => calls[e].branch = "ok"
            /\ Decided(e) /\ pc[e] # "staging_failed" /\ loc[e].ret = "none"
                  /\ pc[e] # "kill" => calls[e].agent = 1
            /\ calls[e].kill > 0 => Ended(e))
    /\ [][\A e \in Workers :
            (StepOrder(pc[e]) \in 0..13 /\ pc'[e] # pc[e]) =>
                /\ StepOrder(pc[e]) = 0 => StepOrder(pc'[e]) \in {0, 1, 13}
                /\ StepOrder(pc[e]) > 0 => StepOrder(pc'[e]) > StepOrder(pc[e])
                /\ pc[e] = "decide" =>
                      pc'[e] = IF loc'[e].status = "completed" THEN "git_add"
                               ELSE "final_write"
                /\ pc[e] = "git_add" => pc'[e] \in {"git_status", "kill"}
                /\ pc[e] = "final_write" => pc'[e] = "kill"]_vars

\* the commit exited non-zero after git status printed changes: no push, the
\* final write and the kill follow
C29_Witness ==
    \E e \in Workers :
        /\ pc[e] = "exit" /\ loc[e].ret = "completed"
        /\ calls[e].git_status = "changes" /\ calls[e].commit = "nonzero"
        /\ calls[e].push = "none" /\ calls[e].kill = 1

----------------------------------------------------------------------------
(* Two executions that differ in the exit code of the agent process *)

\* exit codes of the agent process
ExitCodes == {0, 1, 2, 137}

\* what commands.run does for an agent process that printed stdout and exited
\* with code: it returns the result for 0 and raises CommandExitException, which
\* carries the output, for any other code
AgentExit(code, stdout) ==
    IF code = 0 THEN GwReturn(0, stdout, EmptyStr)
    ELSE GwExit(code, stdout, Str("stderr"))

\* the row when run_agent is called: running, with the sandbox recorded
RunningRow == UpdateTaskStatus(NewTask(TRUE), "running", Null, 1, Null)

\* sandbox.py lines 160-238 and execute_task lines 152-224 for one answer of
\* the gateway to the agent command and one content of the session directory:
\* the exception raised, or the status, result and session_id persisted by
\* the final write (the git commands in between raise nothing)
ExecutionOutcome(gw, file, failure, session_jsonl) ==
    LET a == ParseAgentRun(gw)
        session_files == IF file = Null THEN <<>> ELSE <<file>>
        session_id == DiscoverSessionId(a.session_id, session_files, failure)
        out == RunAgentReturn(session_id, a.result_text, a.timed_out)
        f == DetermineFinal(out.timed_out, out.result)
        row == FinalUpdate(RunningRow, f.status, f.result, out.session_id,
                           <<"ca/task/", TaskId>>)
    IN IF a.raised # "none"
       THEN [raised |-> a.raised, status |-> RunningRow.status,
             result |-> RunningRow.result,
             session_id |-> RunningRow.session_id,
             session_jsonl |-> Null]
       ELSE [raised |-> "none", status |-> row.status, result |-> row.result,
             session_id |-> row.session_id,
             session_jsonl |-> SessionJsonl(Null, session_files, failure,
                                            session_jsonl)]

\* two executions of the same task whose agent printed the same output and
\* left the same transcript, and exited with any two codes
InitRuns ==
    /\ \E c1 \in ExitCodes, c2 \in ExitCodes, so \in AgentStdouts,
          file \in {Null} \cup { <<SessionDir, s, ".jsonl">> : s \in SessionIds },
          failure \in {"none", "ls", "read"}, session_jsonl \in Transcripts :
          /\ (failure = "read" => file # Null)
          /\ (file = Null => session_jsonl = Transcript)
          /\ runs = [RunsOff EXCEPT !.pc = <<"run_agent", "run_agent">>,
                                    !.code = <<c1, c2>>, !.stdout = so,
                                    !.file = file, !.copy = failure,
                                    !.jsonl = session_jsonl]
    /\ wait = WaitOff /\ page = PageOff /\ call = CallOff /\ script = ScriptOff
    /\ task = NewTask(TRUE)
    /\ stored = Null
    /\ live = {}
    /\ orphans = FALSE
    /\ deliveries = 0
    /\ pc = [e \in Workers |-> "off"]
    /\ msg = [e \in Workers |-> 0]
    /\ retries = [e \in Workers |-> 0]
    /\ loc = [e \in Workers |-> LocInit]
    /\ calls = [e \in Workers |-> CallsInit]

\* execution i runs the agent and goes on to its final write
Execute(i) ==
    /\ runs.pc[i] = "run_agent"
    /\ runs' = [runs EXCEPT
                   !.pc[i] = "done",
                   !.out[i] = ExecutionOutcome(
                                  AgentExit(runs.code[i], runs.stdout),
                                  runs.file, runs.copy, runs.jsonl)]
    /\ UNCHANGED <<exec, wait, page, call, script>>

NextRuns == \E i \in 1..2 : Execute(i)

SpecRuns == InitRuns /\ [][NextRuns]_vars

\* C30: two executions that differ only in the exit code of the agent process
\* raise the same exception or persist the same status, result and
\* session_id, and store the same transcript.
C30_ExitCodeIgnored ==
    (runs.pc[1] = "done" /\ runs.pc[2] = "done") => runs.out[1] = runs.out[2]

\* an agent that printed a result is completed whether it exited 0 or 1
C30_Witness ==
    /\ runs.pc = <<"done", "done">> /\ runs.code = <<0, 1>>
    /\ runs.out[1].status = "completed" /\ runs.out[2].status = "completed"
    /\ runs.out[2].result = Str("done") /\ runs.out[2].session_id = Str("s1")

----------------------------------------------------------------------------
(* Functions of the services called on their own *)

\* the orchestrator is not running
ExecOff ==
    /\ task = NewTask(TRUE)
    /\ stored = Null
    /\ live = {}
    /\ orphans = FALSE
    /\ deliveries = 0
    /\ pc = [e \in Workers |-> "off"]
    /\ msg = [e \in Workers |-> 0]
    /\ retries = [e \in Workers |-> 0]
    /\ loc = [e \in Workers |-> LocInit]
    /\ calls = [e \in Workers |-> CallsInit]

\* what sandbox.commands.run can do for a command: return the result of a
\* zero exit, raise CommandExitException with the output of a non-zero exit,
\* raise its timeout signal or another exception
GatewayAnswers ==
    LET outs == AgentStdouts \cup {Str(" M test.txt")}
        errs == {EmptyStr, Str("stderr"), Str(CloneStderr)}
    IN { GwReturn(0, so, se) : so \in outs, se \in errs }
       \cup { GwExit(c, so, se) : c \in ExitCodes \ {0}, so \in outs, se \in errs }
       \cup { GwTimeout,
              [kind |-> "SandboxException", exit_code |-> 0, stdout |-> Null,
               stderr |-> Null] }

\* run_command(sandbox, command, timeout) is called and the gateway answers gw
InitRunCommand ==
    /\ \E gw \in GatewayAnswers :
          call = [CallOff EXCEPT !.pc = "call", !.fn = "run_command", !.arg = gw]
    /\ wait = WaitOff /\ page = PageOff /\ runs = RunsOff /\ script = ScriptOff
    /\ ExecOff

\* sandbox.py lines 95-110
CallRunCommand ==
    /\ call.pc = "call" /\ call.fn = "run_command"
    /\ call' = [call EXCEPT !.pc = "done", !.ret = RunCommand(call.arg)]
    /\ UNCHANGED <<exec, wait, page, runs, script>>

SpecRunCommand == InitRunCommand /\ [][CallRunCommand]_vars

\* C31: for a command that finished, with exit code 0 or not, run_command
\* raises nothing and returns the exit code, stdout and stderr of the command;
\* for the timeout signal of the gateway it raises that signal and returns
\* nothing.
C31_RunCommandResult ==
    (call.fn = "run_command" /\ call.pc = "done") =>
        LET gw == call.arg
            r == call.ret
        IN /\ gw.kind \in {"return", "CommandExitException"} =>
                 /\ r.raised = "none"
                 /\ r.exit_code = gw.exit_code
                 /\ r.stdout = gw.stdout /\ r.stderr = gw.stderr
           /\ gw.kind = "TimeoutException" =>
                 /\ r.raised = "TimeoutException"
                 /\ r.stdout = Null /\ r.stderr = Null

\* a command that exited 137 has returned its result
C31_Witness ==
    /\ call.fn = "run_command" /\ call.pc = "done"
    /\ call.arg.kind = "CommandExitException" /\ call.arg.exit_code = 137
    /\ call.ret.raised = "none" /\ call.ret.exit_code = 137
    /\ call.ret.stderr = Str("stderr")

----------------------------------------------------------------------------
(* TaskService.update_task_status, app/services/task.py lines 90-117 *)

\* the ids of the rows of the tasks table, and an id without a row
RowIds == {"t1", "t2"}
UnknownId == "t3"

\* the latest reading of the clock
MaxNow == 3

\* a row of the table with its timestamps
StoredRow(row, created_at, updated_at) ==
    row @@ [created_at |-> created_at, updated_at |-> updated_at]

\* the rows a table can hold for one id: new, or written before
StoredRows ==
    { StoredRow([NewTask(TRUE) EXCEPT !.status = st, !.result = r,
                                      !.sandbox_id = sb, !.session_id = se,
                                      !.parent_task_id = p, !.branch_name = b],
                0, 1) :
        st \in {"pending", "running"}, r \in {Null, Str("old")},
        sb \in {NoSandbox, 1}, se \in {Null, Str("s2")},
        p \in {Null, Str(ParentId)}, b \in {Null, Str("resume-branch")} }

\* lines 99-117: the table after update_task_status(task_id, ...) at the time
\* now, and the exception raised
UpdateTaskStatusCall(table, task_id, status, result, sandbox_id, session_id, now) ==
    IF task_id \notin DOMAIN table
    THEN [raised |-> "NotFoundError", table |-> table]
    ELSE [raised |-> "none",
          table |-> [table EXCEPT ![task_id] =
                        [UpdateTaskStatus(@, status, result, sandbox_id,
                                          session_id)
                            EXCEPT !.updated_at = now]]]

InitUpdate ==
    /\ \E row \in StoredRows, task_id \in RowIds \cup {UnknownId},
          status \in {"running", "completed", "failed"},
          result \in {Null, EmptyStr, Str("new")},
          sandbox_id \in {NoSandbox, 2}, session_id \in {Null, Str("s1")},
          now \in 2..MaxNow :
          call = [CallOff EXCEPT
                     !.pc = "call", !.fn = "update_task_status",
                     !.arg = [table |-> [i \in RowIds |->
                                           IF i = "t1" THEN row
                                           ELSE StoredRow(NewTask(TRUE), 1, 1)],
                              task_id |-> task_id, status |-> status,
                              result |-> result, sandbox_id |-> sandbox_id,
                              session_id |-> session_id, now |-> now]]
    /\ wait = WaitOff /\ page = PageOff /\ runs = RunsOff /\ script = ScriptOff
    /\ ExecOff

CallUpdateTaskStatus ==
    /\ call.pc = "call" /\ call.fn = "update_task_status"
    /\ LET a == call.arg IN
       call' = [call EXCEPT
                   !.pc = "done",
                   !.ret = UpdateTaskStatusCall(a.table, a.task_id, a.status,
                                                a.result, a.sandbox_id,
                                                a.session_id, a.now)]
    /\ UNCHANGED <<exec, wait, page, runs, script>>

SpecUpdate == InitUpdate /\ [][CallUpdateTaskStatus]_vars

\* C32: for an id with a row, update_task_status raises nothing, leaves every
\* other row as it is and, in the row of the id, sets status and updated_at,
\* sets each of result, sandbox_id and session_id when its argument is not
\* None and keeps every other field; for an id without a row it raises
\* NotFoundError and the table is as before.
C32_UpdateFrame ==
    (call.fn = "update_task_status" /\ call.pc = "done") =>
        LET a == call.arg
            r == call.ret
        IN IF a.task_id \notin RowIds
           THEN r.raised = "NotFoundError" /\ r.table = a.table
           ELSE LET old == a.table[a.task_id]
                    new == r.table[a.task_id]
                IN /\ r.raised = "none"
                   /\ \A i \in RowIds \ {a.task_id} : r.table[i] = a.table[i]
                   /\ new.status = a.status /\ new.updated_at = a.now
                   /\ new.result = IF a.result # Null THEN a.result
                                   ELSE old.result
                   /\ new.sandbox_id = IF a.sandbox_id # NoSandbox
                                       THEN a.sandbox_id ELSE old.sandbox_id
                   /\ new.session_id = IF a.session_id # Null
                                       THEN a.session_id ELSE old.session_id
                   /\ \A f \in DOMAIN old \ {"status", "updated_at", "result",
                                               "sandbox_id", "session_id"} :
                         new[f] = old[f]

\* completed is written with a result and no ids: the sandbox and the session
\* recorded before are kept
C32_Witness ==
    /\ call.fn = "update_task_status" /\ call.pc = "done"
    /\ call.arg.task_id = "t1" /\ call.arg.status = "completed"
    /\ call.arg.result = Str("new") /\ call.arg.sandbox_id = NoSandbox
    /\ call.arg.session_id = Null
    /\ call.ret.table["t1"].result = Str("new")
    /\ call.ret.table["t1"].sandbox_id = 1
    /\ call.ret.table["t1"].session_id = Str("s2")
    /\ call.ret.table["t1"].parent_task_id = Str(ParentId)

----------------------------------------------------------------------------
(* The result of a task that is not terminal *)

\* C33: a task whose persisted status is pending or running has no result.
C33_ResultOnlyWhenTerminal ==
    task.status \in {"pending", "running"} => task.result = Null

----------------------------------------------------------------------------
(* The steps of setup_sandbox_environment *)

\* C34: the preparation starts with the two git identity commands, the
\* install script of the toolkit is reached only from the toolkit clone, and
\* a step that exits non-zero ends no more than itself: the invocation is not
\* raising RuntimeError and the preparation goes on to the clone of the
\* repository.
C34_FailedStepSkipsOnlyItself ==
    /\ [](\A e \in Workers : loc[e].exc # "RuntimeError")
    /\ [][\A e \in Workers :
            /\ (pc[e] = "record_sandbox" /\ pc'[e] # pc[e]) =>
                  pc'[e] = "setup_email"
            /\ (pc[e] = "setup_email" /\ pc'[e] # pc[e]) =>
                  pc'[e] \in {"setup_name", "kill"}
            /\ (pc'[e] = "setup_tk_install" /\ pc'[e] # pc[e]) =>
                  pc[e] = "setup_tk_clone"
            /\ (pc[e] \in {"setup_tk_clone", "setup_tk_install"}
                   /\ pc'[e] = "kill") => loc'[e].exc = "TimeoutException"]_vars

----------------------------------------------------------------------------
(* The copy step of run_agent with any content of the session directory *)

\* the most lines of a transcript file of the sandbox
MaxTranscriptLines == 2

\* the transcript of session s after k messages: every line names its session
RECURSIVE SessionTranscript(_, _)
SessionTranscript(s, k) ==
    IF k = 0 THEN <<>>
    ELSE SessionTranscript(s, k - 1) \o <<"{\"sessionId\":", s, "}", "\n">>

\* ls -1 <session_dir>/*.jsonl: the paths of the files of the sessions in
\* dir, in the order of their names
RECURSIVE LsJsonl(_)
LsJsonl(dir) ==
    IF dir = {} THEN <<>>
    ELSE LET first == CHOOSE s \in dir :
                         \A t \in dir \ {s} :
                            (s = "s0") \/ (s = "s1" /\ t # "s0")
         IN <<  <<SessionDir, first, ".jsonl">>  >> \o LsJsonl(dir \ {first})

\* lines 193-232 for a session directory that holds the transcripts
\* content[s] of the sessions s in dir: the file stored and the session id
\* returned.  session_files[0] is copied.
CopySession(session_id, dir, content, failure) ==
    LET session_files == IF failure = "ls" THEN <<>> ELSE LsJsonl(dir)
        session_jsonl == IF session_files = <<>> THEN Null
                         ELSE content[session_files[1][2]]
    IN [ stored |-> SessionJsonl(Null, session_files, failure, session_jsonl),
         session_id |-> DiscoverSessionId(session_id, session_files, failure) ]

\* run_agent reaches the copy step with the session id the agent reported (or
\* none); the session directory holds the transcripts of any sessions, among
\* them the parent session s0 of a resumed task
InitCopy ==
    /\ \E session_id \in {Null} \cup { Str(x) : x \in SessionIds },
          dir \in SUBSET (SessionIds \cup {"s0"}),
          k \in [SessionIds \cup {"s0"} -> 1..MaxTranscriptLines],
          failure \in {"none", "ls", "read"} :
          /\ (failure = "read" => dir # {})
          /\ call = [CallOff EXCEPT
                        !.pc = "call", !.fn = "copy",
                        !.arg = [session_id |-> session_id, dir |-> dir,
                                 content |-> [x \in SessionIds \cup {"s0"} |->
                                                SessionTranscript(x, k[x])],
                                 failure |-> failure]]
    /\ wait = WaitOff /\ page = PageOff /\ runs = RunsOff /\ script = ScriptOff
    /\ ExecOff

CallCopySession ==
    /\ call.pc = "call" /\ call.fn = "copy"
    /\ LET a == call.arg IN
       call' = [call EXCEPT
                   !.pc = "done",
                   !.ret = CopySession(a.session_id, a.dir, a.content,
                                       a.failure)]
    /\ UNCHANGED <<exec, wait, page, runs, script>>

SpecCopy == InitCopy /\ [][CallCopySession]_vars

\* C35: when the agent reported a session id, the transcript of that session
\* is in the session directory and the listing and the read raised nothing,
\* run_agent returns that session id and the stored file is the transcript of
\* that session, whatever other transcripts the directory holds.
C35_StoredTranscriptOfSession ==
    (call.fn = "copy" /\ call.pc = "done") =>
        LET a == call.arg IN
        (Truthy(a.session_id) /\ a.session_id[1] \in a.dir
            /\ a.failure = "none") =>
            /\ call.ret.session_id = a.session_id
            /\ call.ret.stored = a.content[a.session_id[1]]

----------------------------------------------------------------------------
(* The branch persisted on the task *)

\* C36: an invocation that created the branch of the task and has persisted
\* its name has pushed that branch with a zero exit.
C36_PersistedBranchWasPushed ==
    \A e \in Workers :
        (Returned(e) /\ ~Truthy(loc[e].task_branch)
            /\ Truthy(task.branch_name)
            /\ task.branch_name = loc[e].branch_name) =>
            calls[e].push = "ok"

----------------------------------------------------------------------------
(* The message of one task delivered to two workers whose executions overlap *)

\* The places where an attempt of the first worker stands still while the
\* second worker runs: before it takes a message, after its last step, and
\* before each of its terminal writes, the write of a staging failure
\* (execute_task lines 117-123 and 141-147) and the final write (lines
\* 211-224).
Window == { "idle", "staging_failed", "final_write" }

\* the second worker takes its steps while the first stands in a window; the
\* first takes its steps while the second is between two messages
InTurn(e) == IF e = 1 THEN pc[2] = "idle" ELSE pc[1] \in Window

\* both workers take messages; the task is new
InitOverlap ==
    /\ AsideOff
    /\ task = NewTask(TRUE)
    /\ stored = Null
    /\ live = {}
    /\ orphans = FALSE
    /\ deliveries = 0
    /\ pc = [e \in Workers |-> "idle"]
    /\ msg = [e \in Workers |-> 0]
    /\ retries = [e \in Workers |-> 0]
    /\ loc = [e \in Workers |-> LocInit]
    /\ calls = [e \in Workers |-> CallsInit]

NextOverlap ==
    \/ ReapOrphans
    \/ \E e \in Workers : InTurn(e) /\ (Deliver(e) \/ WorkerStep(e))

SpecOverlap == InitOverlap /\ [][NextOverlap]_vars

\* the other workers have finished their executions of the task
OthersFinished(e) == \A o \in Workers \ {e} : pc[o] = "idle" /\ msg[o] # 0

\* C37: every teardown kills the sandbox its own attempt created and no
\* other, and the last write of the two executions, the terminal write of an
\* execution that read the task before any session id was persisted and
\* writes after the other execution has finished, leaves the row terminal
\* with the result and the session_id of the writing execution.
C37_OverlappedRunsDoNotMix ==
    [][\A e \in Workers :
        /\ (pc[e] = "kill" /\ pc'[e] = "exit") =>
               /\ loc[e].sandbox \in {NoSandbox, SandboxId(e)}
               /\ live' = live \ {loc[e].sandbox}
        /\ (pc[e] \in {"final_write", "staging_failed"} /\ pc'[e] = "kill"
               /\ loc'[e].exc = "none"
               /\ OthersFinished(e) /\ deliveries = MaxDeliveries
               /\ ~Truthy(loc[e].task_session)) =>
               /\ task'.status \in Terminal
               /\ task'.result = loc'[e].result
               /\ task'.session_id = loc'[e].out_session]_vars

----------------------------------------------------------------------------
(* The agent script, scripts/sandbox_agent.py *)

MaxMessages == 3

MessageTypes == {"SystemMessage", "AssistantMessage", "ResultMessage"}

\* json.dumps(results, indent=2) for the keys session_id and result (cost,
\* duration_ms and num_turns are written with result and left out)
JsonDumps(results) ==
    <<"{", "\"session_id\": ">> \o
    (IF results.session_id = Null THEN <<"null">> ELSE results.session_id) \o
    <<",", "\"result\": ">> \o
    (IF results.result = Null THEN <<"null">> ELSE results.result) \o <<"}">>

\* the text is one complete JSON document
CompleteJson(text) ==
    /\ Len(text) = 7
    /\ text[1] = "{" /\ text[2] = "\"session_id\": " /\ text[4] = ","
    /\ text[5] = "\"result\": " /\ text[7] = "}"

\* the value of a key of the document ("null" for None)
JsonValue(text, key) == IF key = "session_id" THEN text[3] ELSE text[6]

\* the text is a document whose session_id is that of results
HoldsSessionId(text, results) ==
    /\ CompleteJson(text)
    /\ results.session_id # Null
    /\ JsonValue(text, "session_id") = results.session_id[1]

\* the script starts with the handler registered and results initialised
\* (lines 52-73); the agent's messages carry one session id
InitScript ==
    /\ ExecOff
    /\ wait = WaitOff /\ page = PageOff /\ runs = RunsOff /\ call = CallOff
    /\ \E sid \in SessionIds :
          script = [ScriptOff EXCEPT !.pc = "loop", !.sid = sid]

\* lines 82-101: the next message of the agent
Message ==
    /\ script.pc = "loop"
    /\ Len(script.seen) < MaxMessages
    /\ \E m \in MessageTypes :
          script' =
             [script EXCEPT
                 !.seen = Append(@, m),
                 !.results =
                     IF m = "SystemMessage"
                     THEN [@ EXCEPT !.session_id = Str(script.sid)]
                     ELSE IF m = "ResultMessage"
                     THEN [@ EXCEPT !.result = Str("done")]
                     ELSE @,
                 !.pc = IF m = "SystemMessage" THEN "sys_write" ELSE "loop"]
    /\ UNCHANGED <<exec, wait, page, runs, call>>

\* the stream of messages ends: the script goes to line 104
EndOfStream ==
    /\ script.pc = "loop"
    /\ script' = [script EXCEPT !.pc = "end_write"]
    /\ UNCHANGED <<exec, wait, page, runs, call>>

\* Path.write_text, lines 89 and 104: open(mode="w") creates or truncates the
\* file
Open ==
    /\ script.pc \in {"sys_write", "end_write"}
    /\ script.w = "none"
    /\ script' = [script EXCEPT !.w = "opened", !.exists = TRUE,
                                !.file = <<>>, !.buf = <<>>]
    /\ UNCHANGED <<exec, wait, page, runs, call>>

\* f.write(data): the text goes to the buffer of the handle
Write ==
    /\ script.w = "opened"
    /\ script' = [script EXCEPT !.w = "written",
                                !.buf = JsonDumps(script.results)]
    /\ UNCHANGED <<exec, wait, page, runs, call>>

\* the with block of write_text closes the handle, which flushes the buffer
\* from the start of the file; after line 104 the script ends
Close ==
    /\ script.w = "written"
    /\ script' = [script EXCEPT
                     !.w = "none", !.file = script.buf, !.buf = <<>>,
                     !.flushed = @ \/ script.results.session_id # Null,
                     !.pc = IF script.pc = "sys_write" THEN "loop" ELSE "done"]
    /\ UNCHANGED <<exec, wait, page, runs, call>>

\* mutant: the handler exits without saving the results
SignalHandler_NoSave(s) ==
    [s EXCEPT !.pc = "exited", !.code = 124, !.w = "none", !.buf = <<>>,
              !.file = IF s.w = "written" THEN s.buf ELSE s.file,
              !.flushed = s.flushed
                             \/ (s.w = "written" /\ s.results.session_id # Null),
              !.before = s.file, !.hit = <<s.pc, s.w>>]

\* lines 29-45: the handler writes json.dumps(results) with a write_text of
\* its own and raises SystemExit(124) where the script was interrupted; the
\* exception leaves the with block of an interrupted write_text, which
\* closes its handle and flushes what its buffer holds over the start of the
\* file
SignalHandler(s) ==
    LET saved == JsonDumps(s.results)
    IN [s EXCEPT !.pc = "exited", !.code = 124, !.w = "none", !.buf = <<>>,
                 !.exists = TRUE,
                 !.file = IF s.w = "written" THEN s.buf ELSE saved,
                 !.flushed = s.results.session_id # Null,
                 !.before = s.file, !.hit = <<s.pc, s.w>>]

\* SIGTERM arrives while the script runs
Sigterm ==
    /\ script.pc \in {"loop", "sys_write", "end_write"}
    /\ script' = SignalHandler(script)
    /\ UNCHANGED <<exec, wait, page, runs, call>>

NextScript == Message \/ EndOfStream \/ Open \/ Write \/ Close \/ Sigterm

SpecScript == InitScript /\ [][NextScript]_vars

====
